---- MODULE Spec2Model ----
(***************************************************************************)
(* Bay control plane: the Sandbox / Session / Workspace aggregate, the     *)
(* per-sandbox lock around SandboxManager.ensure_running, the session      *)
(* promotion in SessionManager, and the IdempotencyService in front of     *)
(* POST /v1/sandboxes.                                                     *)
(*                                                                         *)
(* Every request runs as one asyncio task with its own database session.   *)
(* A step of the model is the code between two suspension points (an       *)
(* awaited database, driver or runtime call).  ORM objects keep the values *)
(* they were loaded with (expire_on_commit = False), so a task decides on  *)
(* its local copy and a commit writes the attributes it assigned.          *)
(***************************************************************************)
EXTENDS Integers, Sequences, FiniteSets, TLC

\* ------------------------------------------------------------------ bounds
NumProcs == 3          \* concurrent requests (asyncio tasks)
MaxSessions == 2       \* Session rows ever created
MaxContainers == 2     \* containers ever created
MaxLocks == 2          \* asyncio.Lock objects ever created for the lock map
MaxSandboxes == 1      \* Sandbox rows created by plain POST /sandboxes
MaxExternal == 1       \* external workspaces ever created
MaxPosted == 2         \* Sandbox rows created by POST requests that carry a key
MaxTime == 2           \* clock ticks, in units of the idempotency TTL
MaxRouted == 2         \* capability calls that go past ensure_session
MaxRows == 3           \* Sandbox rows in a table that is listed
MaxDepth == 3          \* components of a path sent to the runtime
MaxWait == 6           \* budget of a readiness probe, in half seconds
MaxBindings == 2       \* host bindings the engine reports for the runtime port

Procs == 1..NumProcs
SessionIds == 1..MaxSessions
Owners == {"alice", "bob"}
Profiles == {"python-default", "python-data"}
Null == 0

VARIABLES
    sandboxes,      \* table sandbox:   id -> row
    sessions,       \* table session:   id -> row
    workspaces,     \* table workspace: id -> row
    volumes,        \* driver volumes (named after their workspace)
    containers,     \* driver containers: id -> status
    lockMap,        \* _sandbox_locks: sandbox id -> lock object
    lockHeld,       \* the lock objects that are locked
    fresh,          \* next unused session / container / lock / workspace id
    pc,             \* position of each task
    lv,             \* locals of each task
    result,         \* what each finished task returned or raised
    createCalls,    \* Driver.create calls, per session id
    probed,         \* <<session, endpoint>> pairs whose GET /health returned 200
    idem,           \* table idempotency_key: <<owner, key>> -> row
    now             \* datetime.utcnow()

vars == <<sandboxes, sessions, workspaces, volumes, containers, lockMap, lockHeld,
          fresh, pc, lv, result, createCalls, probed, idem, now>>

\* ------------------------------------------------------------------ helpers
NoLocals == [op |-> "none", owner |-> "none", sb |-> Null, ws |-> Null, cur |-> Null,
             sess |-> Null, cid |-> Null, ep |-> Null, lk |-> Null, err |-> "none",
             todo |-> {}, snap |-> <<>>,
             hdr |-> [given |-> FALSE, text |-> <<>>], body |-> <<>>, resp |-> <<>>]

NoResult == [kind |-> "none", sess |-> Null, cid |-> Null, ep |-> Null,
             status |-> Null, content |-> <<>>]

\* a commit writes the assigned attributes `f` of one row
Merge(row, f) == [k \in DOMAIN row |-> IF k \in DOMAIN f THEN f[k] ELSE row[k]]

Goto(p, where) == pc' = [pc EXCEPT ![p] = where]

Return(p, kind, s, c, e) ==
    /\ pc' = [pc EXCEPT ![p] = "done"]
    /\ result' = [result EXCEPT ![p] = [NoResult EXCEPT !.kind = kind, !.sess = s,
                                                      !.cid = c, !.ep = e]]

Raise(p, kind) == Return(p, kind, Null, Null, Null)

\* ids are prefixed strings: a sandbox id and a session id are never equal
SandboxId(id) == <<"sandbox-", id>>
SessionId(s) == <<"sess-", s>>

\* the retry hint SessionManager gives with SessionNotReady
RetryAfterMs == 1000

\* SessionNotReadyError.__init__: details holds the arguments that are truthy
\* (None and the empty string are <<>>, None and 0 are Null)
SessionNotReadyError(sandbox_id, retry_after_ms) ==
    (IF sandbox_id # <<>> THEN [sandbox_id |-> sandbox_id] ELSE <<>>)
        @@ (IF retry_after_ms # Null
            THEN [retry_after_ms |-> retry_after_ms] ELSE <<>>)

\* raise SessionNotReadyError(...)
RaiseNotReady(p, details) ==
    /\ pc' = [pc EXCEPT ![p] = "done"]
    /\ result' = [result EXCEPT ![p] = [NoResult EXCEPT !.kind = "session_not_ready",
                                                      !.status = 503,
                                                      !.content = details]]

\* leaving `async with sandbox_lock`
Release(p) == lockHeld' = lockHeld \ {lv[p].lk}

Init ==
    /\ sandboxes = <<>>
    /\ sessions = <<>>
    /\ workspaces = <<>>
    /\ volumes = {}
    /\ containers = <<>>
    /\ lockMap = <<>>
    /\ lockHeld = {}
    /\ fresh = [session |-> 1, container |-> 1, lock |-> 1, workspace |-> 1]
    /\ pc = [p \in Procs |-> "idle"]
    /\ lv = [p \in Procs |-> NoLocals]
    /\ result = [p \in Procs |-> NoResult]
    /\ createCalls = [s \in SessionIds |-> 0]
    /\ probed = {}
    /\ idem = <<>>
    /\ now = 0

\* ------------------------------------------------- workspaces and sandboxes
\* WorkspaceManager.create: the row and its volume
WorkspaceCreate(owner, managed, by) ==
    /\ workspaces' = workspaces @@ (fresh.workspace :>
           [owner |-> owner, managed |-> managed, managed_by_sandbox_id |-> by])
    /\ volumes' = volumes \cup {fresh.workspace}
    /\ fresh' = [fresh EXCEPT !.workspace = @ + 1]

\* the clock counts hours; Sandbox.expires_at is kept in seconds
SecondsPerHour == 3600

\* SandboxManager.create that makes a managed workspace whatever it is given
SandboxCreate_AlwaysManaged(owner, profile_id, workspace_id, ttl) ==
    LET id == Cardinality(DOMAIN sandboxes) + 1
        row(ws) == [owner |-> owner, profile_id |-> profile_id, workspace_id |-> ws,
                    current_session_id |-> Null, deleted |-> FALSE,
                    idle_expires_at |-> FALSE, created_at |-> now,
                    expires_at |-> Null]
    IN  /\ WorkspaceCreate(owner, TRUE, id)
        /\ sandboxes' = sandboxes @@ (id :> row(fresh.workspace))

\* SandboxManager.create after the profile check
SandboxCreate(owner, profile_id, workspace_id, ttl) ==
    LET id == Cardinality(DOMAIN sandboxes) + 1
        expires_at == IF ttl # Null /\ ttl > 0 THEN now * SecondsPerHour + ttl ELSE Null
        row(ws) == [owner |-> owner, profile_id |-> profile_id, workspace_id |-> ws,
                    current_session_id |-> Null, deleted |-> FALSE,
                    idle_expires_at |-> FALSE, created_at |-> now,
                    expires_at |-> expires_at]
    IN  IF workspace_id # Null
        THEN /\ sandboxes' = sandboxes @@ (id :> row(workspace_id))
             /\ UNCHANGED <<workspaces, volumes, fresh>>
        ELSE /\ WorkspaceCreate(owner, TRUE, id)
             /\ sandboxes' = sandboxes @@ (id :> row(fresh.workspace))

\* WorkspaceManager.get: an existing workspace of that owner
WorkspaceVisible(id, owner) ==
    id \in DOMAIN workspaces /\ workspaces[id].owner = owner

\* an external workspace made through the workspace API
CreateExternalWorkspace ==
    /\ fresh.workspace <= MaxExternal
    /\ \E o \in Owners : WorkspaceCreate(o, FALSE, Null)
    /\ UNCHANGED <<sandboxes, sessions, containers, lockMap, lockHeld, pc, lv, result,
                   createCalls, probed, idem, now>>

\* POST /v1/sandboxes without an Idempotency-Key header
PostPlain ==
    /\ Cardinality(DOMAIN sandboxes) < MaxSandboxes
    /\ \E o \in Owners, w \in {Null} \cup DOMAIN workspaces :
         /\ w # Null => WorkspaceVisible(w, o)
         /\ SandboxCreate(o, "python-default", w, Null)
    /\ UNCHANGED <<sessions, containers, lockMap, lockHeld, pc, lv, result,
                   createCalls, probed, idem, now>>

\* SandboxManager.get: the row is visible to its owner until it is soft-deleted
SandboxVisible_AnyOwner(id, owner) ==
    id \in DOMAIN sandboxes /\ ~sandboxes[id].deleted

SandboxVisible_Deleted(id, owner) ==
    id \in DOMAIN sandboxes /\ sandboxes[id].owner = owner

SandboxVisible(id, owner) ==
    /\ id \in DOMAIN sandboxes
    /\ sandboxes[id].owner = owner
    /\ ~sandboxes[id].deleted

\* the handler's first await: sandbox_mgr.get(sandbox_id, owner)
Fetch(p, op, first) ==
    /\ pc[p] = "idle"
    /\ \E o \in Owners, id \in 1..MaxSandboxes :
         IF SandboxVisible(id, o)
         THEN /\ Goto(p, first)
              /\ lv' = [lv EXCEPT ![p] = [NoLocals EXCEPT !.op = op, !.owner = o, !.sb = id,
                                              !.ws = sandboxes[id].workspace_id]]
              /\ UNCHANGED result
         ELSE /\ Raise(p, "not_found")
              /\ lv' = [lv EXCEPT ![p] = [NoLocals EXCEPT !.op = op, !.owner = o, !.sb = id]]
    /\ UNCHANGED <<sandboxes, sessions, workspaces, volumes, containers, lockMap,
                   lockHeld, fresh, createCalls, probed, idem, now>>

\* ------------------------------------------------------------ sessions
\* Session.is_ready
is_ready(s) == s.observed_state = "running" /\ s.endpoint # Null

\* SessionManager.create: the new row
NewSession(sandbox_id) ==
    [sandbox_id |-> sandbox_id, runtime_type |-> "ship",
     desired_state |-> "pending", observed_state |-> "pending",
     container_id |-> Null, endpoint |-> Null]

\* SessionManager.ensure_running without the starting check
Promote_NoStartingCheck(s) ==
    IF is_ready(s) THEN "er_touch"
    ELSE IF s.container_id = Null THEN "er_mark"
    ELSE IF s.observed_state # "running" THEN "er_start"
    ELSE "er_touch"

\* SessionManager.ensure_running, up to its first await: where it goes for a
\* session loaded as `s`
Promote(s) ==
    IF is_ready(s) THEN "er_touch"
    ELSE IF s.observed_state = "starting" THEN "raise_not_ready"
    ELSE IF s.container_id = Null THEN "er_mark"
    ELSE IF s.observed_state # "running" THEN "er_start"
    ELSE "er_touch"

\* ----------------------------------------- SandboxManager.ensure_running
ErGet(p) == Fetch(p, "ensure_running", "er_lock")

\* asyncio.Lock.acquire returns at once only when the lock is not locked
LockFree_Unchecked(l) == TRUE

LockFree(l) == l \notin lockHeld

\* _get_sandbox_lock, then `async with sandbox_lock`: taken at once when free
ErLock(p) ==
    /\ pc[p] = "er_lock"
    /\ LET id == lv[p].sb
           known == id \in DOMAIN lockMap
           l == IF known THEN lockMap[id] ELSE fresh.lock
       IN  /\ known \/ fresh.lock <= MaxLocks
           /\ lockMap' = IF known THEN lockMap ELSE lockMap @@ (id :> l)
           /\ fresh' = IF known THEN fresh ELSE [fresh EXCEPT !.lock = @ + 1]
           /\ lv' = [lv EXCEPT ![p].lk = l]
           /\ IF LockFree(l)
              THEN Goto(p, "er_reread") /\ lockHeld' = lockHeld \cup {l}
              ELSE Goto(p, "er_wait") /\ UNCHANGED lockHeld
    /\ UNCHANGED <<sandboxes, sessions, workspaces, volumes, containers, result,
                   createCalls, probed, idem, now>>

\* a waiter is woken when the lock object it waits on is released
ErWake(p) ==
    /\ pc[p] = "er_wait"
    /\ LockFree(lv[p].lk)
    /\ lockHeld' = lockHeld \cup {lv[p].lk}
    /\ Goto(p, "er_reread")
    /\ UNCHANGED <<sandboxes, sessions, workspaces, volumes, containers, lockMap, fresh,
                   lv, result, createCalls, probed, idem, now>>

\* rollback, re-read of the sandbox row (no deleted_at filter) and of the workspace
ErReread(p) ==
    /\ pc[p] = "er_reread"
    /\ IF lv[p].ws \notin DOMAIN workspaces
       THEN Raise(p, "not_found") /\ Release(p) /\ UNCHANGED lv
       ELSE /\ lv' = [lv EXCEPT ![p].cur = sandboxes[lv[p].sb].current_session_id]
            /\ Goto(p, IF sandboxes[lv[p].sb].current_session_id # Null
                       THEN "er_sess" ELSE "er_new")
            /\ UNCHANGED <<result, lockHeld>>
    /\ UNCHANGED <<sandboxes, sessions, workspaces, volumes, containers, lockMap, fresh,
                   createCalls, probed, idem, now>>

\* session_mgr.get(current_session_id), then SessionManager.ensure_running's checks
ErSess(p) ==
    /\ pc[p] = "er_sess"
    /\ IF lv[p].cur \notin DOMAIN sessions
       THEN Goto(p, "er_new") /\ UNCHANGED <<lv, result, lockHeld>>
       ELSE LET s == sessions[lv[p].cur] IN
            /\ lv' = [lv EXCEPT ![p].sess = lv[p].cur, ![p].cid = s.container_id,
                                ![p].ep = s.endpoint]
            /\ IF Promote(s) = "raise_not_ready"
               THEN /\ RaiseNotReady(p, SessionNotReadyError(SandboxId(s.sandbox_id),
                                                              RetryAfterMs))
                    /\ Release(p)
               ELSE Goto(p, Promote(s)) /\ UNCHANGED <<result, lockHeld>>
    /\ UNCHANGED <<sandboxes, sessions, workspaces, volumes, containers, lockMap, fresh,
                   createCalls, probed, idem, now>>

\* session_mgr.create: the pending row is committed
ErNew(p) ==
    /\ pc[p] = "er_new"
    /\ fresh.session <= MaxSessions
    /\ sessions' = sessions @@ (fresh.session :> NewSession(lv[p].sb))
    /\ fresh' = [fresh EXCEPT !.session = @ + 1]
    /\ lv' = [lv EXCEPT ![p].sess = fresh.session, ![p].cid = Null, ![p].ep = Null]
    /\ Goto(p, "er_setcur")
    /\ UNCHANGED <<sandboxes, workspaces, volumes, containers, lockMap, lockHeld, result,
                   createCalls, probed, idem, now>>

\* locked_sandbox.current_session_id = session.id; commit
ErSetCur(p) ==
    /\ pc[p] = "er_setcur"
    /\ sandboxes' = [sandboxes EXCEPT ![lv[p].sb].current_session_id = lv[p].sess]
    /\ Goto(p, Promote(NewSession(lv[p].sb)))
    /\ UNCHANGED <<sessions, workspaces, volumes, containers, lockMap, lockHeld, fresh,
                   lv, result, createCalls, probed, idem, now>>

\* desired_state = running, observed_state = starting; commit
ErMark(p) ==
    /\ pc[p] = "er_mark"
    /\ IF lv[p].sess \in DOMAIN sessions
       THEN /\ sessions' = [sessions EXCEPT ![lv[p].sess] =
                   Merge(@, [desired_state |-> "running", observed_state |-> "starting"])]
            /\ Goto(p, "er_create")
            /\ UNCHANGED <<result, lockHeld>>
       ELSE Raise(p, "error") /\ Release(p) /\ UNCHANGED sessions
    /\ UNCHANGED <<sandboxes, workspaces, volumes, containers, lockMap, fresh, lv,
                   createCalls, probed, idem, now>>

\* Driver.create, outside the try block: its error leaves the row as committed
ErCreate(p) ==
    /\ pc[p] = "er_create"
    /\ createCalls' = [createCalls EXCEPT ![lv[p].sess] = @ + 1]
    /\ \/ /\ fresh.container <= MaxContainers
          /\ containers' = containers @@ (fresh.container :> "created")
          /\ fresh' = [fresh EXCEPT !.container = @ + 1]
          /\ lv' = [lv EXCEPT ![p].cid = fresh.container]
          /\ Goto(p, "er_savecid")
          /\ UNCHANGED <<result, lockHeld>>
       \/ /\ Raise(p, "driver_error")
          /\ Release(p)
          /\ UNCHANGED <<containers, fresh, lv>>
    /\ UNCHANGED <<sandboxes, sessions, workspaces, volumes, lockMap, probed, idem, now>>

\* session.container_id = container_id; commit
ErSaveCid(p) ==
    /\ pc[p] = "er_savecid"
    /\ IF lv[p].sess \in DOMAIN sessions
       THEN /\ sessions' = [sessions EXCEPT ![lv[p].sess] =
                                Merge(@, [container_id |-> lv[p].cid])]
            /\ Goto(p, "er_start")
            /\ UNCHANGED <<result, lockHeld>>
       ELSE Raise(p, "error") /\ Release(p) /\ UNCHANGED sessions
    /\ UNCHANGED <<sandboxes, workspaces, volumes, containers, lockMap, fresh, lv,
                   createCalls, probed, idem, now>>

\* Driver.start: the container runs and its endpoint is resolved, or it raises
ErStart(p) ==
    /\ pc[p] = "er_start"
    /\ \/ /\ lv[p].cid \in DOMAIN containers
          /\ containers' = [containers EXCEPT ![lv[p].cid] = "running"]
          /\ lv' = [lv EXCEPT ![p].ep = lv[p].cid]
          /\ Goto(p, "er_probe")
       \/ /\ lv' = [lv EXCEPT ![p].err = "driver_error"]
          /\ Goto(p, "er_fail")
          /\ UNCHANGED containers
    /\ UNCHANGED <<sandboxes, sessions, workspaces, volumes, lockMap, lockHeld, fresh,
                   result, createCalls, probed, idem, now>>

\* _wait_for_ready: GET /health answers 200 within the budget, or SessionNotReady
ErProbe(p) ==
    /\ pc[p] = "er_probe"
    /\ \/ /\ lv[p].cid \in DOMAIN containers
          /\ containers[lv[p].cid] = "running"
          /\ probed' = probed \cup {<<lv[p].sess, lv[p].ep>>}
          /\ Goto(p, "er_running")
          /\ UNCHANGED lv
       \/ /\ lv' = [lv EXCEPT ![p].err = "session_not_ready"]
          /\ Goto(p, "er_fail")
          /\ UNCHANGED probed
    /\ UNCHANGED <<sandboxes, sessions, workspaces, volumes, containers, lockMap,
                   lockHeld, fresh, result, createCalls, idem, now>>

\* the attributes the try block commits on success
RunningWrite(ep) == [endpoint |-> ep, observed_state |-> "running"]

\* observed_state = running; commit
ErRunning(p) ==
    /\ pc[p] = "er_running"
    /\ IF lv[p].sess \in DOMAIN sessions
       THEN /\ sessions' = [sessions EXCEPT ![lv[p].sess] = Merge(@, RunningWrite(lv[p].ep))]
            /\ Goto(p, "er_touch")
            /\ UNCHANGED <<result, lockHeld>>
       ELSE Raise(p, "error") /\ Release(p) /\ UNCHANGED sessions
    /\ UNCHANGED <<sandboxes, workspaces, volumes, containers, lockMap, fresh, lv,
                   createCalls, probed, idem, now>>

\* the attributes the except block commits: the endpoint too once start returned
FailedWrite(started, ep) ==
    IF started THEN [endpoint |-> ep, observed_state |-> "failed"]
    ELSE [observed_state |-> "failed"]

\* except: observed_state = failed; commit; raise
ErFail(p) ==
    /\ pc[p] = "er_fail"
    /\ IF lv[p].sess \in DOMAIN sessions
       THEN /\ sessions' = [sessions EXCEPT ![lv[p].sess] =
                   Merge(@, FailedWrite(lv[p].err = "session_not_ready", lv[p].ep))]
            /\ IF lv[p].err = "session_not_ready"
               THEN RaiseNotReady(p, SessionNotReadyError(SessionId(lv[p].sess),
                                                          RetryAfterMs))
               ELSE Raise(p, lv[p].err)
       ELSE Raise(p, "error") /\ UNCHANGED sessions
    /\ Release(p)
    /\ UNCHANGED <<sandboxes, workspaces, volumes, containers, lockMap, fresh, lv,
                   createCalls, probed, idem, now>>

\* idle_expires_at and last_active_at; commit; the lock is released on return
ErTouch(p) ==
    /\ pc[p] = "er_touch"
    /\ sandboxes' = [sandboxes EXCEPT ![lv[p].sb].idle_expires_at = TRUE]
    /\ Return(p, "ok", lv[p].sess, lv[p].cid, lv[p].ep)
    /\ Release(p)
    /\ UNCHANGED <<sessions, workspaces, volumes, containers, lockMap, fresh, lv,
                   createCalls, probed, idem, now>>

EnsureRunning(p) ==
    \/ ErGet(p) \/ ErLock(p) \/ ErWake(p) \/ ErReread(p) \/ ErSess(p) \/ ErNew(p)
    \/ ErSetCur(p) \/ ErMark(p) \/ ErCreate(p) \/ ErSaveCid(p) \/ ErStart(p)
    \/ ErProbe(p) \/ ErRunning(p) \/ ErFail(p) \/ ErTouch(p)

\* ------------------------------------------------- SandboxManager.keepalive
KaGet(p) == Fetch(p, "keepalive", "ka_write")

\* idle_expires_at and last_active_at; commit
KaWrite_StaleRow(p) ==
    /\ pc[p] = "ka_write"
    /\ sandboxes' = [sandboxes EXCEPT ![lv[p].sb] =
           Merge(@, [idle_expires_at |-> TRUE, current_session_id |-> Null])]
    /\ Return(p, "ok", Null, Null, Null)
    /\ UNCHANGED <<sessions, workspaces, volumes, containers, lockMap, lockHeld, fresh,
                   lv, createCalls, probed, idem, now>>

KaWrite(p) ==
    /\ pc[p] = "ka_write"
    /\ sandboxes' = [sandboxes EXCEPT ![lv[p].sb].idle_expires_at = TRUE]
    /\ Return(p, "ok", Null, Null, Null)
    /\ UNCHANGED <<sessions, workspaces, volumes, containers, lockMap, lockHeld, fresh,
                   lv, createCalls, probed, idem, now>>

Keepalive(p) == KaGet(p) \/ KaWrite(p)

\* ------------------------------------------------------ SandboxManager.stop
\* the sessions a select on sandbox_id returns, with the container ids they load
SessionsOf_None(id) == {}

SessionsOf(id) == {s \in DOMAIN sessions : sessions[s].sandbox_id = id}

StopGet(p) == Fetch(p, "stop", "st_select")

StopSelect(p) ==
    /\ pc[p] = "st_select"
    /\ lv' = [lv EXCEPT ![p].todo = SessionsOf(lv[p].sb),
                        ![p].snap = [s \in SessionsOf(lv[p].sb) |-> sessions[s].container_id]]
    /\ Goto(p, IF SessionsOf(lv[p].sb) = {} THEN "st_clear" ELSE "st_stopping")
    /\ UNCHANGED <<sandboxes, sessions, workspaces, volumes, containers, lockMap,
                   lockHeld, fresh, result, createCalls, probed, idem, now>>

\* SessionManager.stop: desired_state = stopped, observed_state = stopping; commit
StopStopping(p) ==
    /\ pc[p] = "st_stopping"
    /\ \E s \in lv[p].todo :
         IF s \in DOMAIN sessions
         THEN /\ sessions' = [sessions EXCEPT ![s] =
                     Merge(@, [desired_state |-> "stopped", observed_state |-> "stopping"])]
              /\ lv' = [lv EXCEPT ![p].sess = s, ![p].cid = lv[p].snap[s]]
              /\ Goto(p, IF lv[p].snap[s] # Null THEN "st_driver" ELSE "st_stopped")
              /\ UNCHANGED result
         ELSE Raise(p, "error") /\ UNCHANGED <<sessions, lv>>
    /\ UNCHANGED <<sandboxes, workspaces, volumes, containers, lockMap, lockHeld, fresh,
                   createCalls, probed, idem, now>>

\* the status the engine answers a call on a container with: 204, 404 for a
\* container that is gone, and some other error at any time
EngineAnswers(cid) == (IF cid \in DOMAIN containers THEN {204} ELSE {404}) \cup {500}

\* a driver that raises whatever DockerError it gets
Absorbed_Nothing(answer) == answer = 204

\* except DockerError: a status of 404 is logged, anything else is raised
Absorbed(answer) == answer \in {204, 404}

\* Driver.stop: a container that is gone is absorbed, another error is raised
StopDriver(p) ==
    /\ pc[p] = "st_driver"
    /\ \E answer \in EngineAnswers(lv[p].cid) :
         /\ lv' = [lv EXCEPT ![p].resp = <<answer>>]
         /\ IF Absorbed(answer)
            THEN /\ containers' = IF lv[p].cid \in DOMAIN containers
                                     /\ containers[lv[p].cid] = "running"
                                  THEN [containers EXCEPT ![lv[p].cid] = "exited"]
                                  ELSE containers
                 /\ Goto(p, "st_stopped")
                 /\ UNCHANGED result
            ELSE /\ Raise(p, "driver_error")
                 /\ UNCHANGED containers
    /\ UNCHANGED <<sandboxes, sessions, workspaces, volumes, lockMap, lockHeld, fresh,
                   createCalls, probed, idem, now>>

\* observed_state = stopped, endpoint = None; commit
StopStopped(p) ==
    /\ pc[p] = "st_stopped"
    /\ IF lv[p].sess \in DOMAIN sessions
       THEN /\ sessions' = [sessions EXCEPT ![lv[p].sess] =
                   Merge(@, [observed_state |-> "stopped", endpoint |-> Null])]
            /\ lv' = [lv EXCEPT ![p].todo = @ \ {lv[p].sess}]
            /\ Goto(p, IF lv[p].todo \ {lv[p].sess} = {} THEN "st_clear" ELSE "st_stopping")
            /\ UNCHANGED result
       ELSE Raise(p, "error") /\ UNCHANGED <<sessions, lv>>
    /\ UNCHANGED <<sandboxes, workspaces, volumes, containers, lockMap, lockHeld, fresh,
                   createCalls, probed, idem, now>>

\* current_session_id = None, idle_expires_at = None; commit
StopClear_KeepCurrent(p) ==
    /\ pc[p] = "st_clear"
    /\ sandboxes' = [sandboxes EXCEPT ![lv[p].sb] = Merge(@, [idle_expires_at |-> FALSE])]
    /\ Return(p, "ok", Null, Null, Null)
    /\ UNCHANGED <<sessions, workspaces, volumes, containers, lockMap, lockHeld, fresh,
                   lv, createCalls, probed, idem, now>>

StopClear(p) ==
    /\ pc[p] = "st_clear"
    /\ sandboxes' = [sandboxes EXCEPT ![lv[p].sb] =
           Merge(@, [current_session_id |-> Null, idle_expires_at |-> FALSE])]
    /\ Return(p, "ok", Null, Null, Null)
    /\ UNCHANGED <<sessions, workspaces, volumes, containers, lockMap, lockHeld, fresh,
                   lv, createCalls, probed, idem, now>>

Stop(p) ==
    \/ StopGet(p) \/ StopSelect(p) \/ StopStopping(p) \/ StopDriver(p)
    \/ StopStopped(p) \/ StopClear(p)

\* ---------------------------------------------------- SandboxManager.delete
\* _cleanup_sandbox_lock: the map entry is dropped, whoever holds the lock object
CleanupLock(id) == [k \in DOMAIN lockMap \ {id} |-> lockMap[k]]

DelGet(p) == Fetch(p, "delete", "dl_select")

\* the loop over the selected sessions: SessionManager.destroy awaits the driver
\* only for a session that has a container id
DestroyNext_RowsOnly(p, todo, snap) ==
    IF todo = {}
    THEN Goto(p, "dl_workspace") /\ lv' = [lv EXCEPT ![p].todo = todo, ![p].snap = snap]
    ELSE \E s \in todo :
           /\ lv' = [lv EXCEPT ![p].todo = todo, ![p].snap = snap, ![p].sess = s,
                               ![p].cid = snap[s]]
           /\ Goto(p, "dl_row")

DestroyNext(p, todo, snap) ==
    IF todo = {}
    THEN Goto(p, "dl_workspace") /\ lv' = [lv EXCEPT ![p].todo = todo, ![p].snap = snap]
    ELSE \E s \in todo :
           /\ lv' = [lv EXCEPT ![p].todo = todo, ![p].snap = snap, ![p].sess = s,
                               ![p].cid = snap[s]]
           /\ Goto(p, IF snap[s] # Null THEN "dl_driver" ELSE "dl_row")

DelSelect(p) ==
    /\ pc[p] = "dl_select"
    /\ DestroyNext(p, SessionsOf(lv[p].sb),
                   [s \in SessionsOf(lv[p].sb) |-> sessions[s].container_id])
    /\ UNCHANGED <<sandboxes, sessions, workspaces, volumes, containers, lockMap,
                   lockHeld, fresh, result, createCalls, probed, idem, now>>

\* Driver.destroy: a container that is gone is absorbed, another error is raised
DelDriver(p) ==
    /\ pc[p] = "dl_driver"
    /\ \E answer \in EngineAnswers(lv[p].cid) :
         /\ lv' = [lv EXCEPT ![p].resp = <<answer>>]
         /\ IF Absorbed(answer)
            THEN /\ containers' = [c \in DOMAIN containers \ {lv[p].cid} |-> containers[c]]
                 /\ Goto(p, "dl_row")
                 /\ UNCHANGED result
            ELSE /\ Raise(p, "driver_error")
                 /\ UNCHANGED containers
    /\ UNCHANGED <<sandboxes, sessions, workspaces, volumes, lockMap, lockHeld, fresh,
                   createCalls, probed, idem, now>>

\* the session row is deleted; commit
DelRow(p) ==
    /\ pc[p] = "dl_row"
    /\ sessions' = [s \in DOMAIN sessions \ {lv[p].sess} |-> sessions[s]]
    /\ DestroyNext(p, lv[p].todo \ {lv[p].sess}, lv[p].snap)
    /\ UNCHANGED <<sandboxes, workspaces, volumes, containers, lockMap, lockHeld, fresh,
                   result, createCalls, probed, idem, now>>

\* workspace_mgr.get_by_id(sandbox.workspace_id)
DelWorkspace_AllManaged(p) ==
    /\ pc[p] = "dl_workspace"
    /\ lv' = [lv EXCEPT ![p].err =
                 IF lv[p].ws \notin DOMAIN workspaces THEN "none" ELSE "managed"]
    /\ Goto(p, "dl_soft")
    /\ UNCHANGED <<sandboxes, sessions, workspaces, volumes, containers, lockMap,
                   lockHeld, fresh, result, createCalls, probed, idem, now>>

DelWorkspace(p) ==
    /\ pc[p] = "dl_workspace"
    /\ lv' = [lv EXCEPT ![p].err =
                 IF lv[p].ws \notin DOMAIN workspaces THEN "none"
                 ELSE IF workspaces[lv[p].ws].managed THEN "managed" ELSE "external"]
    /\ Goto(p, "dl_soft")
    /\ UNCHANGED <<sandboxes, sessions, workspaces, volumes, containers, lockMap,
                   lockHeld, fresh, result, createCalls, probed, idem, now>>

\* deleted_at = now, current_session_id = None; commit.  Without a managed
\* workspace the lock entry is cleaned up next, with no await in between
DelSoft(p) ==
    /\ pc[p] = "dl_soft"
    /\ sandboxes' = [sandboxes EXCEPT ![lv[p].sb] =
           Merge(@, [deleted |-> TRUE, current_session_id |-> Null])]
    /\ IF lv[p].err = "managed"
       THEN Goto(p, "dl_cascade") /\ UNCHANGED <<result, lockMap>>
       ELSE Return(p, "ok", Null, Null, Null) /\ lockMap' = CleanupLock(lv[p].sb)
    /\ UNCHANGED <<sessions, workspaces, volumes, containers, lockHeld, fresh, lv,
                   createCalls, probed, idem, now>>

\* WorkspaceManager.delete(force = True): the volume and the row; then the lock entry
DelCascade(p) ==
    /\ pc[p] = "dl_cascade"
    /\ IF lv[p].ws \in DOMAIN workspaces
       THEN /\ workspaces' = [w \in DOMAIN workspaces \ {lv[p].ws} |-> workspaces[w]]
            /\ volumes' = volumes \ {lv[p].ws}
            /\ lockMap' = CleanupLock(lv[p].sb)
            /\ Return(p, "ok", Null, Null, Null)
       ELSE Raise(p, "not_found") /\ UNCHANGED <<workspaces, volumes, lockMap>>
    /\ UNCHANGED <<sandboxes, sessions, containers, lockHeld, fresh, lv, createCalls,
                   probed, idem, now>>

Delete(p) ==
    \/ DelGet(p) \/ DelSelect(p) \/ DelDriver(p) \/ DelRow(p) \/ DelWorkspace(p)
    \/ DelSoft(p) \/ DelCascade(p)

\* ----------------------------------------- SessionManager.refresh_status
\* Driver.status for a container id
DriverStatus(cid) == IF cid \in DOMAIN containers THEN containers[cid] ELSE "not_found"

\* refresh_status that takes a container being removed for a stopped one
Reconcile_RemovingStops(status, endpoint) ==
    IF status = "running" THEN [observed_state |-> "running", endpoint |-> endpoint]
    ELSE IF status = "created" THEN [observed_state |-> "pending"]
    ELSE IF status = "not_found" THEN [observed_state |-> "stopped", container_id |-> Null]
    ELSE [observed_state |-> "stopped"]

\* the attributes refresh_status assigns for a driver status and its endpoint
Reconcile(status, endpoint) ==
    IF status = "running" THEN [observed_state |-> "running", endpoint |-> endpoint]
    ELSE IF status = "created" THEN [observed_state |-> "pending"]
    ELSE IF status = "exited" THEN [observed_state |-> "stopped"]
    ELSE IF status = "not_found" THEN [observed_state |-> "stopped", container_id |-> Null]
    ELSE <<>>

\* the caller's session object; without a container id it is returned as it is
RfLoad(p) ==
    /\ pc[p] = "idle"
    /\ \E s \in DOMAIN sessions :
         /\ lv' = [lv EXCEPT ![p] = [NoLocals EXCEPT !.op = "refresh_status", !.sess = s,
                                         !.cid = sessions[s].container_id]]
         /\ IF sessions[s].container_id = Null
            THEN Return(p, "ok", s, Null, sessions[s].endpoint)
            ELSE Goto(p, "rf_status") /\ UNCHANGED result
    /\ UNCHANGED <<sandboxes, sessions, workspaces, volumes, containers, lockMap,
                   lockHeld, fresh, createCalls, probed, idem, now>>

\* Driver.status: a running container's endpoint is resolved, or left None
RfStatus(p) ==
    /\ pc[p] = "rf_status"
    /\ \E e \in {lv[p].cid, Null} :
         /\ e # Null => DriverStatus(lv[p].cid) = "running"
         /\ lv' = [lv EXCEPT ![p].err = DriverStatus(lv[p].cid), ![p].ep = e]
    /\ Goto(p, "rf_write")
    /\ UNCHANGED <<sandboxes, sessions, workspaces, volumes, containers, lockMap,
                   lockHeld, fresh, result, createCalls, probed, idem, now>>

\* the mapped state; commit
RfWrite(p) ==
    /\ pc[p] = "rf_write"
    /\ IF lv[p].sess \in DOMAIN sessions
       THEN /\ sessions' = [sessions EXCEPT ![lv[p].sess] =
                                Merge(@, Reconcile(lv[p].err, lv[p].ep))]
            /\ Return(p, "ok", lv[p].sess, lv[p].cid, lv[p].ep)
       ELSE Raise(p, "error") /\ UNCHANGED sessions
    /\ UNCHANGED <<sandboxes, workspaces, volumes, containers, lockMap, lockHeld, fresh,
                   lv, createCalls, probed, idem, now>>

RefreshStatus(p) == RfLoad(p) \/ RfStatus(p) \/ RfWrite(p)

\* ---------------------------------------------------- idempotency service
\* IdempotencyConfig defaults
IdempotencyEnabled == TRUE
TtlHours == 1

\* IDEMPOTENCY_KEY_PATTERN: [a-zA-Z0-9_-]{1,128}
MaxKeyLen == 128
KeyChars ==
    {"a", "b", "c", "d", "e", "f", "g", "h", "i", "j", "k", "l", "m",
     "n", "o", "p", "q", "r", "s", "t", "u", "v", "w", "x", "y", "z",
     "A", "B", "C", "D", "E", "F", "G", "H", "I", "J", "K", "L", "M",
     "N", "O", "P", "Q", "R", "S", "T", "U", "V", "W", "X", "Y", "Z",
     "0", "1", "2", "3", "4", "5", "6", "7", "8", "9", "_", "-"}
LF == "\n"

\* IDEMPOTENCY_KEY_PATTERN.match(key); `$` also matches before one trailing newline
validate_key(key) ==
    LET n == Len(key)
        core == IF n > 0 /\ key[n] = LF THEN SubSeq(key, 1, n - 1) ELSE key
    IN  /\ Len(core) \in 1..MaxKeyLen
        /\ \A i \in 1..Len(core) : core[i] \in KeyChars

\* the Idempotency-Key header of a request: absent, or a string of characters
NoHeader == [given |-> FALSE, text |-> <<>>]
Header(text) == [given |-> TRUE, text |-> text]
K1 == <<"K", "1">>
HeaderValues ==
    {NoHeader, Header(K1), Header(<<>>), Header(<<"K", " ", "1">>),
     Header([i \in 1..(MaxKeyLen + 1) |-> "a"])}

\* `if idempotency_key:` in the handler: None and "" are falsy
Truthy(hdr) == hdr.given /\ Len(hdr.text) > 0

\* CreateSandboxRequest after parsing
Bodies ==
    {[profile |-> "python-default", workspace_id |-> Null, ttl |-> Null],
     [profile |-> "python-default", workspace_id |-> Null, ttl |-> 3600],
     [profile |-> "no-such-profile", workspace_id |-> Null, ttl |-> Null]}

\* request.model_dump_json(): the fields in declaration order
model_dump_json(b) == <<"profile", b.profile, "workspace_id", b.workspace_id, "ttl", b.ttl>>

\* sha256 of f"{method}:{path}:{body}", taken as injective on its input
compute_fingerprint(path, method, body) == <<"sha256", <<method, ":", path, ":">> \o body>>

\* IdempotencyKey.is_expired
is_expired(record) == record.expires_at <= now

\* Sandbox.compute_status; `cur` is the set holding the current session, if any
compute_status(sb, cur) ==
    IF sb.deleted THEN "deleted"
    ELSE IF cur = {} THEN "idle"
    ELSE LET s == CHOOSE x \in cur : TRUE
         IN  IF s.observed_state \in {"pending", "starting"} THEN "starting"
             ELSE IF s.observed_state = "running" THEN "ready"
             ELSE "stopped"

\* _sandbox_to_response(sandbox) with no current session
sandbox_to_response(id, sb) ==
    [id |-> id, status |-> compute_status(sb, {}), profile |-> sb.profile_id,
     workspace_id |-> sb.workspace_id, created_at |-> sb.created_at,
     expires_at |-> sb.expires_at]

\* the two renderings of a datetime: datetime.isoformat() and str(datetime)
isoformat(d) == <<d, "T">>
DateStr(d) == <<d, " ">>

\* the response model as FastAPI serialises it
Encode(r) == [r EXCEPT !.created_at = isoformat(@),
                       !.expires_at = IF @ = Null THEN <<>> ELSE isoformat(@)]

\* json.dumps(response.model_dump(), default=str) and json.loads
json_dumps(r) == <<"json", [r EXCEPT !.created_at = DateStr(@),
                                     !.expires_at = IF @ = Null THEN <<>> ELSE DateStr(@)]>>
json_loads(j) == j[2]

\* the HTTP response of a POST /v1/sandboxes
Respond(p, kind, status, content) ==
    /\ pc' = [pc EXCEPT ![p] = "done"]
    /\ result' = [result EXCEPT ![p] = [NoResult EXCEPT !.kind = kind, !.status = status,
                                                      !.content = content]]

\* the lookup key of a record: where(owner == owner, key == key)
KeyOf_AnyOwner(p) == <<"alice", lv[p].hdr.text>>

KeyOf(p) == <<lv[p].owner, lv[p].hdr.text>>
FingerprintOf(p) == compute_fingerprint("/v1/sandboxes", "POST", model_dump_json(lv[p].body))

\* create_sandbox up to the first await; check() validates the key before its query
PostStart(p) ==
    /\ pc[p] = "idle"
    /\ \E o \in Owners, hdr \in HeaderValues, b \in Bodies :
         /\ lv' = [lv EXCEPT ![p] = [NoLocals EXCEPT !.op = "post", !.owner = o,
                                         !.hdr = hdr, !.body = b]]
         /\ IF Truthy(hdr) /\ IdempotencyEnabled
            THEN IF validate_key(hdr.text)
                 THEN Goto(p, "po_check") /\ UNCHANGED result
                 ELSE Respond(p, "conflict_format", 409, <<>>)
            ELSE Goto(p, "po_create") /\ UNCHANGED result
    /\ UNCHANGED <<sandboxes, sessions, workspaces, volumes, containers, lockMap,
                   lockHeld, fresh, createCalls, probed, idem, now>>

\* check() on a record that was found
CheckRecord_IgnoreExpiry(record, fingerprint) ==
    IF record.request_fingerprint # fingerprint THEN "conflict" ELSE "cached"

CheckRecord_IgnoreFingerprint(record, fingerprint) ==
    IF is_expired(record) THEN "expired" ELSE "cached"

CheckRecord(record, fingerprint) ==
    IF is_expired(record) THEN "expired"
    ELSE IF record.request_fingerprint # fingerprint THEN "conflict"
    ELSE "cached"

\* CachedResponse(response, status_code)
CachedResponse_Created(record) ==
    [response |-> json_loads(record.response_snapshot), status_code |-> 200]

CachedResponse(record) ==
    [response |-> json_loads(record.response_snapshot), status_code |-> record.status_code]

\* check(): the lookup of (owner, key) and the decision on the row
PostCheck(p) ==
    /\ pc[p] = "po_check"
    /\ IF KeyOf(p) \notin DOMAIN idem
       THEN Goto(p, "po_create") /\ UNCHANGED result
       ELSE LET record == idem[KeyOf(p)]
                outcome == CheckRecord(record, FingerprintOf(p))
            IN  IF outcome = "expired"
                THEN Goto(p, "po_expire") /\ UNCHANGED result
                ELSE IF outcome = "conflict"
                THEN Respond(p, "conflict_reuse", 409, <<>>)
                ELSE Respond(p, "cached", CachedResponse(record).status_code,
                             CachedResponse(record).response)
    /\ UNCHANGED <<sandboxes, sessions, workspaces, volumes, containers, lockMap,
                   lockHeld, fresh, lv, createCalls, probed, idem, now>>

\* check(): delete(record) and flush, by primary key (owner, key)
PostExpire(p) ==
    /\ pc[p] = "po_expire"
    /\ idem' = [k \in DOMAIN idem \ {KeyOf(p)} |-> idem[k]]
    /\ Goto(p, "po_create")
    /\ UNCHANGED <<sandboxes, sessions, workspaces, volumes, containers, lockMap,
                   lockHeld, fresh, lv, result, createCalls, probed, now>>

\* a manager that takes any profile id
get_profile_Any(profile_id) == {profile_id}

\* settings.get_profile: the configured profile of that id, if there is one
get_profile(profile_id) == {profile_id} \cap Profiles

\* sandbox_mgr.create and _sandbox_to_response
PostCreate(p) ==
    /\ pc[p] = "po_create"
    /\ IF get_profile(lv[p].body.profile) = {}
       THEN /\ Respond(p, "validation_error", 400, <<>>)
            /\ UNCHANGED <<sandboxes, workspaces, volumes, fresh, lv>>
       ELSE LET id == Cardinality(DOMAIN sandboxes) + 1
            IN  /\ id <= MaxPosted
                /\ SandboxCreate(lv[p].owner, lv[p].body.profile,
                                 lv[p].body.workspace_id, lv[p].body.ttl)
                /\ lv' = [lv EXCEPT ![p].resp = sandbox_to_response(id, sandboxes'[id])]
                /\ IF Truthy(lv[p].hdr)
                   THEN Goto(p, "po_save") /\ UNCHANGED result
                   ELSE Respond(p, "created", 201, Encode(lv'[p].resp))
    /\ UNCHANGED <<sessions, containers, lockMap, lockHeld, createCalls, probed, idem, now>>

\* a save that writes its record over the one that is there
PostSave_Overwrite(p) ==
    /\ pc[p] = "po_save"
    /\ idem' = [k \in DOMAIN idem \cup {KeyOf(p)} |->
                   IF k = KeyOf(p)
                   THEN [request_fingerprint |-> FingerprintOf(p),
                         response_snapshot |-> json_dumps(lv[p].resp),
                         status_code |-> 201,
                         created_at |-> now,
                         expires_at |-> now + TtlHours]
                   ELSE idem[k]]
    /\ Respond(p, "created", 201, Encode(lv[p].resp))
    /\ UNCHANGED <<sandboxes, sessions, workspaces, volumes, containers, lockMap,
                   lockHeld, fresh, lv, createCalls, probed, now>>

\* save(): the insert; a unique violation on (owner, key) is swallowed
PostSave(p) ==
    /\ pc[p] = "po_save"
    /\ IF IdempotencyEnabled /\ KeyOf(p) \notin DOMAIN idem
       THEN idem' = idem @@ (KeyOf(p) :>
                [request_fingerprint |-> FingerprintOf(p),
                 response_snapshot |-> json_dumps(lv[p].resp),
                 status_code |-> 201,
                 created_at |-> now,
                 expires_at |-> now + TtlHours])
       ELSE UNCHANGED idem
    /\ Respond(p, "created", 201, Encode(lv[p].resp))
    /\ UNCHANGED <<sandboxes, sessions, workspaces, volumes, containers, lockMap,
                   lockHeld, fresh, lv, createCalls, probed, now>>

Post(p) == PostStart(p) \/ PostCheck(p) \/ PostExpire(p) \/ PostCreate(p) \/ PostSave(p)

\* cleanup_expired(): bulk delete where expires_at < now
CleanupExpired ==
    /\ \E k \in DOMAIN idem : idem[k].expires_at < now
    /\ idem' = [k \in {x \in DOMAIN idem : ~(idem[x].expires_at < now)} |-> idem[k]]
    /\ UNCHANGED <<sandboxes, sessions, workspaces, volumes, containers, lockMap,
                   lockHeld, fresh, pc, lv, result, createCalls, probed, now>>

\* datetime.utcnow() advances by one hour
Tick ==
    /\ now < MaxTime
    /\ now' = now + 1
    /\ UNCHANGED <<sandboxes, sessions, workspaces, volumes, containers, lockMap,
                   lockHeld, fresh, pc, lv, result, createCalls, probed, idem>>

\* ------------------------------------------------- GET /v1/sandboxes[/{id}]
\* _sandbox_to_response(sandbox, current_session); `cur` holds the session, if any
sandbox_to_response_with(id, sb, cur) ==
    [id |-> id, status |-> compute_status(sb, cur), profile |-> sb.profile_id,
     workspace_id |-> sb.workspace_id, created_at |-> sb.created_at,
     expires_at |-> sb.expires_at]

\* get_sandbox: sandbox_mgr.get; the loaded row is kept in the task
GtGet(p) ==
    /\ pc[p] = "idle"
    /\ \E o \in Owners, id \in 1..MaxSandboxes :
         IF SandboxVisible(id, o)
         THEN /\ Goto(p, "gt_session")
              /\ lv' = [lv EXCEPT ![p] = [NoLocals EXCEPT !.op = "get", !.owner = o,
                             !.sb = id, !.ws = sandboxes[id].workspace_id,
                             !.cur = sandboxes[id].current_session_id,
                             !.resp = sandboxes[id]]]
              /\ UNCHANGED result
         ELSE /\ Raise(p, "not_found")
              /\ lv' = [lv EXCEPT ![p] = [NoLocals EXCEPT !.op = "get", !.owner = o,
                                                           !.sb = id]]
    /\ UNCHANGED <<sandboxes, sessions, workspaces, volumes, containers, lockMap,
                   lockHeld, fresh, createCalls, probed, idem, now>>

\* get_current_session on the loaded row, then the response
GtSession(p) ==
    /\ pc[p] = "gt_session"
    /\ LET cur == IF lv[p].cur # Null /\ lv[p].cur \in DOMAIN sessions
                  THEN {sessions[lv[p].cur]} ELSE {}
       IN  Respond(p, "ok", 200, Encode(sandbox_to_response_with(lv[p].sb, lv[p].resp, cur)))
    /\ UNCHANGED <<sandboxes, sessions, workspaces, volumes, containers, lockMap,
                   lockHeld, fresh, lv, createCalls, probed, idem, now>>

GetSandbox(p) == GtGet(p) \/ GtSession(p)

\* limit: int = Query(50, ge=1, le=200); the values a model request uses
Limits == {1, 2}

\* the rows the list query matches: owner, not soft-deleted, id > cursor
Matching(owner, cursor) ==
    {id \in DOMAIN sandboxes :
        /\ sandboxes[id].owner = owner
        /\ ~sandboxes[id].deleted
        /\ (cursor # Null => id > cursor)}

\* order_by(Sandbox.id).limit(n)
RECURSIVE FirstRows(_, _)
FirstRows(S, n) ==
    IF S = {} \/ n = 0 THEN <<>>
    ELSE LET least == CHOOSE x \in S : \A y \in S : x <= y
         IN  <<least>> \o FirstRows(S \ {least}, n - 1)

\* SandboxManager.list without the extra row: a full page always has a cursor
list_NoLookahead(owner, status, limit, cursor) ==
    LET rows == FirstRows(Matching(owner, cursor), limit)
    IN  IF Len(rows) = limit
        THEN [items |-> rows, next_cursor |-> rows[limit]]
        ELSE [items |-> rows, next_cursor |-> Null]

\* SandboxManager.list; the status argument does not enter the query
list(owner, status, limit, cursor) ==
    LET rows == FirstRows(Matching(owner, cursor), limit + 1)
    IN  IF Len(rows) > limit
        THEN [items |-> SubSeq(rows, 1, limit), next_cursor |-> rows[limit]]
        ELSE [items |-> rows, next_cursor |-> Null]

\* list_sandboxes: one query, every item rendered without a session
ListSandboxes(p) ==
    /\ pc[p] = "idle"
    /\ \E o \in Owners, limit \in Limits, cursor \in {Null} \cup (1..MaxSandboxes) :
         LET page == list(o, Null, limit, cursor)
         IN  /\ lv' = [lv EXCEPT ![p] = [NoLocals EXCEPT !.op = "list", !.owner = o]]
             /\ Respond(p, "ok", 200,
                    [items |-> [i \in 1..Len(page.items) |->
                                   Encode(sandbox_to_response(page.items[i],
                                                              sandboxes[page.items[i]]))],
                     next_cursor |-> page.next_cursor])
    /\ UNCHANGED <<sandboxes, sessions, workspaces, volumes, containers, lockMap,
                   lockHeld, fresh, createCalls, probed, idem, now>>

\* ------------------------------------------------------- specifications
\* every request on the sandbox aggregate
Next ==
    \/ CreateExternalWorkspace
    \/ PostPlain
    \/ \E p \in Procs : EnsureRunning(p)
    \/ \E p \in Procs : Keepalive(p)
    \/ \E p \in Procs : Stop(p)
    \/ \E p \in Procs : Delete(p)
    \/ \E p \in Procs : RefreshStatus(p)

Spec == Init /\ [][Next]_vars

\* the requests that start and reclaim compute: no delete
NextCompute ==
    \/ CreateExternalWorkspace
    \/ PostPlain
    \/ \E p \in Procs : EnsureRunning(p)
    \/ \E p \in Procs : Keepalive(p)
    \/ \E p \in Procs : Stop(p)

SpecCompute == Init /\ [][NextCompute]_vars

\* concurrent ensure_running calls and nothing else
NextPromote ==
    \/ CreateExternalWorkspace
    \/ PostPlain
    \/ \E p \in Procs : EnsureRunning(p)

SpecPromote == Init /\ [][NextPromote]_vars

\* the operations of the sandbox API, reads included
NextApi ==
    \/ CreateExternalWorkspace
    \/ PostPlain
    \/ \E p \in Procs : EnsureRunning(p)
    \/ \E p \in Procs : Keepalive(p)
    \/ \E p \in Procs : Stop(p)
    \/ \E p \in Procs : Delete(p)
    \/ \E p \in Procs : GetSandbox(p)
    \/ \E p \in Procs : ListSandboxes(p)

SpecApi == Init /\ [][NextApi]_vars

\* requests served one after the other: a request is received and runs to its
\* response while no other request is in flight
Alone(p) == \A q \in Procs \ {p} : pc[q] \in {"idle", "done"}

NextSeq ==
    \/ CreateExternalWorkspace
    \/ PostPlain
    \/ \E p \in Procs : Alone(p) /\ EnsureRunning(p)
    \/ \E p \in Procs : Alone(p) /\ Keepalive(p)
    \/ \E p \in Procs : Alone(p) /\ Stop(p)
    \/ \E p \in Procs : Alone(p) /\ Delete(p)
    \/ \E p \in Procs : Alone(p) /\ GetSandbox(p)

SpecSeq == Init /\ [][NextSeq]_vars

\* POST /v1/sandboxes with and without Idempotency-Key, and the clock
NextIdem ==
    \/ \E p \in Procs : Post(p)
    \/ CleanupExpired
    \/ Tick

SpecIdem == Init /\ [][NextIdem]_vars

\* ------------------------------------------------------------ properties
Live == {"pending", "starting", "running"}

\* inside `async with sandbox_lock`, up to the final commit
CriticalPcs == {"er_reread", "er_sess", "er_new", "er_setcur", "er_mark", "er_create",
                "er_savecid", "er_start", "er_probe", "er_running", "er_fail", "er_touch"}

InCritical(p) == pc[p] \in CriticalPcs

\* a finished call of SandboxManager.ensure_running (its handler found the sandbox)
Called(p) == pc[p] = "done" /\ lv[p].op = "ensure_running" /\ lv[p].lk # Null

RECURSIVE SumCalls(_)
SumCalls(S) ==
    IF S = {} THEN 0
    ELSE LET s == CHOOSE x \in S : TRUE IN createCalls[s] + SumCalls(S \ {s})

\* Driver.create calls made for the sessions of sandbox `id`
CreateCallsFor(id) == SumCalls(SessionsOf(id))

PromotionIsSingle ==
    /\ \A id \in DOMAIN sandboxes :
         CreateCallsFor(id) <= 1 /\ Cardinality(SessionsOf(id)) <= 1
    /\ \A p, q \in Procs :
         ( /\ Called(p) /\ Called(q) /\ lv[p].sb = lv[q].sb
           /\ result[p].kind = "ok" /\ result[q].kind = "ok" )
         => result[p].cid # Null /\ result[p].cid = result[q].cid

\* C1 as stated: racing ensure_running calls make at most one Driver.create call and
\* one Session row, and every caller returns the session of the one container or
\* fails with SessionNotReady
C1_AsStated ==
    /\ PromotionIsSingle
    /\ \A p \in Procs : Called(p) => result[p].kind \in {"ok", "session_not_ready"}

\* C1 amended: racing ensure_running calls make at most one Driver.create call and one
\* Session row, and every caller returns the session of the one container, fails with
\* SessionNotReady, or fails with the error a failing Driver.create or Driver.start
\* raised inside its own call
C1_SinglePromotion ==
    /\ PromotionIsSingle
    /\ \A p \in Procs :
         Called(p) => result[p].kind \in {"ok", "session_not_ready", "driver_error"}

C1_Witness ==
    \E p, q \in Procs :
        /\ p # q /\ Called(p) /\ Called(q)
        /\ result[p].kind = "ok" /\ result[q].kind = "ok"
        /\ result[p].cid = result[q].cid /\ result[p].cid # Null
        /\ lv[p].sb = lv[q].sb /\ CreateCallsFor(lv[p].sb) = 1

\* C2: at most one ensure_running call per sandbox id is inside the critical section
C2_Serialized ==
    \A p, q \in Procs :
        p # q /\ InCritical(p) /\ InCritical(q) => lv[p].sb # lv[q].sb

\* C3: at most one Session row of a sandbox is pending, starting or running
C3_OneLiveSession ==
    \A id \in DOMAIN sandboxes :
        Cardinality({s \in SessionsOf(id) : sessions[s].observed_state \in Live}) <= 1

\* C4: a committed session has an endpoint exactly when it is running
C4_EndpointIffRunning ==
    \A s \in DOMAIN sessions :
        (sessions[s].endpoint # Null) <=> (sessions[s].observed_state = "running")

\* C5: a running session has an endpoint, and that endpoint passed GET /health
C5_RunningWasProbed ==
    \A s \in DOMAIN sessions :
        sessions[s].observed_state = "running"
        => sessions[s].endpoint # Null /\ <<s, sessions[s].endpoint>> \in probed

\* ------------------------------------------------ idempotency properties
Posted(p) == lv[p].op = "post" /\ pc[p] # "idle"
Keyed(p) == Posted(p) /\ Truthy(lv[p].hdr) /\ validate_key(lv[p].hdr.text)
Created(p) == Posted(p) /\ lv[p].resp # <<>>
Checking(p) == pc[p] = "po_check" /\ pc'[p] # "po_check" /\ KeyOf(p) \in DOMAIN idem

\* every stored record is the saved 201 response of a sandbox of that owner
RecordsAreSaved ==
    \A k \in DOMAIN idem :
        LET stored == json_loads(idem[k].response_snapshot)
        IN  /\ idem[k].status_code = 201
            /\ idem[k].expires_at > idem[k].created_at
            /\ stored.id \in DOMAIN sandboxes
            /\ sandboxes[stored.id].owner = k[1]

RetryIsServed ==
    \A p \in Procs :
        ( /\ Checking(p)
          /\ idem[KeyOf(p)].expires_at > now
          /\ idem[KeyOf(p)].request_fingerprint = FingerprintOf(p) )
        => /\ pc'[p] = "done"
           /\ result'[p].kind = "cached"
           /\ result'[p].status = idem[KeyOf(p)].status_code
           /\ result'[p].content = json_loads(idem[KeyOf(p)].response_snapshot)
           /\ UNCHANGED <<sandboxes, workspaces, volumes, idem>>

\* C6: once a POST by owner O with key K has saved its response, a later POST
\* by O with the same K and the same fingerprint, made while the record is
\* unexpired, is answered with the stored response (the same sandbox id) and
\* the stored status code 201, and creates no sandbox and no workspace.
C6_SequentialRetry == []RecordsAreSaved /\ [][RetryIsServed]_vars

C6_Witness ==
    \E p, q \in Procs :
        /\ p # q /\ pc[p] = "done" /\ pc[q] = "done"
        /\ result[p].kind = "created" /\ result[q].kind = "cached"
        /\ KeyOf(p) = KeyOf(q) /\ FingerprintOf(p) = FingerprintOf(q)
        /\ result[q].status = 201 /\ result[q].content.id = result[p].content.id
        /\ Cardinality(DOMAIN sandboxes) = 1

\* C7: while no record can have expired, among the POST requests that carry
\* the same valid key for the same owner with the same fingerprint, at most
\* one has executed SandboxManager.create, and all that have completed
\* returned the same sandbox id.
C7_AtMostOnce ==
    now = 0 =>
        \A p, q \in Procs :
            ( /\ Keyed(p) /\ Keyed(q)
              /\ KeyOf(p) = KeyOf(q) /\ FingerprintOf(p) = FingerprintOf(q) )
            => /\ (Created(p) /\ Created(q) => p = q)
               /\ ( /\ result[p].kind \in {"created", "cached"}
                    /\ result[q].kind \in {"created", "cached"} )
                  => result[p].content.id = result[q].content.id

ReuseIsRefused ==
    \A p \in Procs :
        ( /\ Checking(p)
          /\ idem[KeyOf(p)].expires_at > now
          /\ idem[KeyOf(p)].request_fingerprint # FingerprintOf(p) )
        => /\ pc'[p] = "done"
           /\ result'[p].kind = "conflict_reuse"
           /\ result'[p].status = 409
           /\ lv'[p].resp = <<>>
           /\ UNCHANGED <<sandboxes, workspaces, volumes, idem>>

\* C8: a check against an unexpired record of (owner, key) whose fingerprint
\* differs from the request's raises Conflict (409); the record stays as it
\* was and the request creates no sandbox.
C8_ReuseConflict == [][ReuseIsRefused]_vars

C8_Witness ==
    \E p \in Procs :
        /\ pc[p] = "done" /\ result[p].kind = "conflict_reuse" /\ result[p].status = 409
        /\ KeyOf(p) \in DOMAIN idem
        /\ idem[KeyOf(p)].request_fingerprint # FingerprintOf(p)
        /\ idem[KeyOf(p)].expires_at > now

\* the key format: 1 to 128 characters from [A-Za-z0-9_-]
MatchesKeyFormat(text) ==
    /\ Len(text) \in 1..MaxKeyLen
    /\ \A i \in 1..Len(text) : text[i] \in KeyChars

\* C9: a POST whose Idempotency-Key header value does not match the key
\* format has been rejected with Conflict (409) and has created no sandbox.
C9_BadKeyRejected ==
    \A p \in Procs :
        (Posted(p) /\ lv[p].hdr.given /\ ~MatchesKeyFormat(lv[p].hdr.text))
        => /\ pc[p] = "done"
           /\ result[p].kind = "conflict_format" /\ result[p].status = 409
           /\ ~Created(p)

ExpiredIsDropped ==
    \A p \in Procs :
        /\ (Checking(p) /\ idem[KeyOf(p)].expires_at <= now)
           => pc'[p] = "po_expire" /\ result'[p] = result[p]
        /\ (pc[p] = "po_expire" /\ pc'[p] # "po_expire")
           => KeyOf(p) \notin DOMAIN idem' /\ pc'[p] = "po_create"

\* C10: a check that finds a record with expires_at <= now never answers from
\* it and never compares fingerprints: it deletes the record and goes on to a
\* fresh create, whatever the request body.
C10_ExpiredNeverServed == [][ExpiredIsDropped]_vars

C10_Witness ==
    \E p, q \in Procs :
        /\ p # q /\ pc[p] = "done" /\ pc[q] = "done"
        /\ result[p].kind = "created" /\ result[q].kind = "created"
        /\ Keyed(p) /\ KeyOf(p) = KeyOf(q) /\ FingerprintOf(p) # FingerprintOf(q)
        /\ KeyOf(q) \in DOMAIN idem
        /\ idem[KeyOf(q)].request_fingerprint = FingerprintOf(q)
        /\ idem[KeyOf(q)].created_at > 0
        /\ result[p].content.id # result[q].content.id

\* a step of request p of the POST handler
PostStep(p) == pc[p] # "idle" /\ pc'[p] # pc[p] /\ lv[p].op = "post"

OwnRecord(p) == <<lv[p].owner, lv[p].hdr.text>>

OthersUntouched ==
    \A p \in Procs :
        PostStep(p) =>
            /\ \A k \in DOMAIN idem :
                 k[1] # lv[p].owner => k \in DOMAIN idem' /\ idem'[k] = idem[k]
            /\ (pc'[p] = "done" /\ result'[p].kind = "cached")
               => /\ OwnRecord(p) \in DOMAIN idem
                  /\ result'[p].content = json_loads(idem[OwnRecord(p)].response_snapshot)
                  /\ sandboxes[result'[p].content.id].owner = lv[p].owner
            /\ (pc'[p] = "done" /\ result'[p].kind = "conflict_reuse")
               => OwnRecord(p) \in DOMAIN idem

\* C11: a check or save made by owner B never returns, never raises Conflict
\* on, and never deletes or replaces a record saved under another owner A,
\* whatever the key.
C11_OwnerScoped == [][OthersUntouched]_vars

C11_Witness ==
    \E p, q \in Procs :
        /\ pc[p] = "done" /\ pc[q] = "done"
        /\ lv[p].owner = "alice" /\ lv[q].owner = "bob"
        /\ lv[p].hdr = lv[q].hdr /\ Keyed(p)
        /\ FingerprintOf(p) # FingerprintOf(q)
        /\ result[p].kind = "created" /\ result[q].kind = "created"
        /\ OwnRecord(p) \in DOMAIN idem /\ OwnRecord(q) \in DOMAIN idem
        /\ idem[OwnRecord(p)].request_fingerprint = FingerprintOf(p)
        /\ idem[OwnRecord(q)].request_fingerprint = FingerprintOf(q)

\* ------------------------------------------------- visibility properties
ByIdOps == {"get", "keepalive", "stop", "delete"}

\* request p is received: the handler runs up to its first await
Arrives(p, ops) == pc[p] = "idle" /\ pc'[p] # "idle" /\ lv'[p].op \in ops

StoreUnchanged == UNCHANGED <<sandboxes, sessions, containers, workspaces, volumes>>

ListedIds(p) == {result[p].content.items[i].id : i \in 1..Len(result[p].content.items)}

ForeignIsNotFound ==
    \A p \in Procs :
        /\ ( /\ Arrives(p, ByIdOps)
             /\ lv'[p].sb \in DOMAIN sandboxes
             /\ sandboxes[lv'[p].sb].owner # lv'[p].owner )
           => /\ pc'[p] = "done" /\ result'[p].kind = "not_found"
              /\ StoreUnchanged
        /\ Arrives(p, {"list"})
           => /\ \A i \in 1..Len(result'[p].content.items) :
                    sandboxes[result'[p].content.items[i].id].owner = lv'[p].owner
              /\ StoreUnchanged

OnlyOwnerProceeds ==
    \A p \in Procs :
        (lv[p].op \in ByIdOps /\ pc[p] \notin {"idle", "done"})
        => sandboxes[lv[p].sb].owner = lv[p].owner

\* C12: a get, keepalive, stop or delete that names sandbox S under an owner
\* other than S.owner fails with NotFound in its first step and changes no
\* sandbox, session, container, workspace or volume; no such request is ever
\* past its lookup; a list under an owner returns only that owner's sandboxes.
C12_Ownership == []OnlyOwnerProceeds /\ [][ForeignIsNotFound]_vars

C12_Witness ==
    \E p, q \in Procs :
        /\ pc[p] = "done" /\ lv[p].op \in {"stop", "delete"}
        /\ result[p].kind = "not_found"
        /\ lv[p].sb \in DOMAIN sandboxes
        /\ ~sandboxes[lv[p].sb].deleted
        /\ sandboxes[lv[p].sb].owner # lv[p].owner
        /\ sandboxes[lv[p].sb].current_session_id # Null
        /\ pc[q] = "done" /\ lv[q].op = "list" /\ lv[q].owner = lv[p].owner
        /\ ListedIds(q) = {}

DeletedIsNotFound ==
    \A p \in Procs :
        /\ ( /\ Arrives(p, ByIdOps)
             /\ lv'[p].sb \in DOMAIN sandboxes
             /\ sandboxes[lv'[p].sb].owner = lv'[p].owner
             /\ sandboxes[lv'[p].sb].deleted )
           => /\ pc'[p] = "done" /\ result'[p].kind = "not_found"
              /\ StoreUnchanged
        /\ Arrives(p, {"list"})
           => \A i \in 1..Len(result'[p].content.items) :
                  ~sandboxes[result'[p].content.items[i].id].deleted

\* C13: a get, stop, keepalive or delete received under the owner of S once
\* S is soft-deleted fails with NotFound, and a list received then does not
\* return S.
C13_SoftDeleteInvisible == [][DeletedIsNotFound]_vars

C13_Witness ==
    \E p, q, r \in Procs :
        /\ pc[p] = "done" /\ lv[p].op = "delete" /\ result[p].kind = "ok"
        /\ pc[q] = "done" /\ lv[q].op = "get" /\ result[q].kind = "not_found"
        /\ lv[q].sb = lv[p].sb /\ lv[q].owner = lv[p].owner
        /\ sandboxes[lv[p].sb].deleted
        /\ pc[r] = "done" /\ lv[r].op = "list" /\ lv[r].owner = lv[p].owner
        /\ ListedIds(r) = {}

\* ------------------------------------------------------- stop properties
\* a step of request p inside operation `op`, after its lookup
StepOf(p, op) == lv[p].op = op /\ pc[p] \notin {"idle", "done"} /\ pc'[p] # pc[p]

Completes(p, op) == StepOf(p, op) /\ pc'[p] = "done" /\ result'[p].kind = "ok"

RowsOf(id) == {s \in DOMAIN sessions : sessions[s].sandbox_id = id}

\* the persisted state a Stop leaves: nothing current, every session stopped
StoppedForm(id) ==
    /\ sandboxes[id].current_session_id = Null
    /\ sandboxes[id].idle_expires_at = FALSE
    /\ \A s \in RowsOf(id) :
         /\ sessions[s].desired_state = "stopped"
         /\ sessions[s].observed_state = "stopped"
         /\ sessions[s].endpoint = Null

\* what a step of Stop may write: current_session_id and idle_expires_at of its
\* sandbox, and desired_state, observed_state and endpoint of its sessions
StopWrites(p) ==
    /\ UNCHANGED <<workspaces, volumes>>
    /\ DOMAIN sandboxes' = DOMAIN sandboxes /\ DOMAIN sessions' = DOMAIN sessions
    /\ \A id \in DOMAIN sandboxes :
         sandboxes'[id] = IF id = lv[p].sb
                          THEN Merge(sandboxes[id],
                                     [current_session_id |-> sandboxes'[id].current_session_id,
                                      idle_expires_at |-> sandboxes'[id].idle_expires_at])
                          ELSE sandboxes[id]
    /\ \A s \in DOMAIN sessions :
         sessions'[s] = IF s \in RowsOf(lv[p].sb)
                        THEN Merge(sessions[s],
                                   [desired_state |-> sessions'[s].desired_state,
                                    observed_state |-> sessions'[s].observed_state,
                                    endpoint |-> sessions'[s].endpoint])
                        ELSE sessions[s]

StopNormalises ==
    \A p \in Procs :
        /\ StepOf(p, "stop") => StopWrites(p)
        /\ Completes(p, "stop") => StoppedForm(lv[p].sb)'

StopOutcome(kinds) ==
    \A p \in Procs :
        (lv[p].op = "stop" /\ pc[p] = "done" /\ result[p].kind # "not_found")
        => result[p].kind \in kinds

\* C14 as stated: every Stop call served on its own succeeds.
C14_AsStated == StopOutcome({"ok"})

\* C14 amended: a Stop call served on its own succeeds unless Driver.stop
\* raises an error other than not-found; a Stop writes nothing but
\* current_session_id and idle_expires_at of its sandbox and the states and
\* endpoint of its sessions, and when it succeeds the sandbox has no current
\* session and no idle expiry and every session of it is stopped with a null
\* endpoint, so a second Stop leaves the persisted state of the first.
C14_StopIdempotent == []StopOutcome({"ok", "driver_error"}) /\ [][StopNormalises]_vars

C14_Witness ==
    \E p, q \in Procs :
        /\ p # q /\ lv[p].op = "stop" /\ lv[q].op = "stop" /\ lv[p].sb = lv[q].sb
        /\ pc[p] = "done" /\ pc[q] = "done"
        /\ result[p].kind = "ok" /\ result[q].kind = "ok"
        /\ StoppedForm(lv[p].sb)
        /\ \E s \in RowsOf(lv[p].sb) : sessions[s].container_id # Null

\* the status GET /sandboxes/{id} derives from the stored rows
DerivedStatus(id) ==
    compute_status(sandboxes[id],
                   IF sandboxes[id].current_session_id \in DOMAIN sessions
                   THEN {sessions[sandboxes[id].current_session_id]} ELSE {})

StopKeepsData ==
    \A p \in Procs :
        /\ StepOf(p, "stop") => UNCHANGED <<workspaces, volumes>>
        /\ Completes(p, "stop") =>
             /\ lv[p].sb \in DOMAIN sandboxes'
             /\ ~sandboxes'[lv[p].sb].deleted
             /\ DerivedStatus(lv[p].sb)' = "idle"
             /\ sandboxes'[lv[p].sb].workspace_id = lv[p].ws
             /\ lv[p].ws \in DOMAIN workspaces'
             /\ lv[p].ws \in volumes'

\* C15: no step of Stop removes a workspace row or a volume, and when Stop(S)
\* completes the sandbox row is there and not deleted, its derived status is
\* idle, its workspace_id is the one it had, and the workspace row and its
\* volume exist.
C15_StopKeepsWorkspace == [][StopKeepsData]_vars

C15_Witness ==
    \E p \in Procs :
        /\ lv[p].op = "stop" /\ pc[p] = "done" /\ result[p].kind = "ok"
        /\ DerivedStatus(lv[p].sb) = "idle"
        /\ \E s \in RowsOf(lv[p].sb) :
             /\ sessions[s].container_id \in DOMAIN containers
             /\ containers[sessions[s].container_id] = "exited"
             /\ sessions[s].observed_state = "stopped"
        /\ lv[p].ws \in volumes

\* -------------------------------------------------- keepalive properties
KeepaliveWrites ==
    \A p \in Procs :
        StepOf(p, "keepalive") =>
            /\ UNCHANGED <<sessions, containers, createCalls, workspaces, volumes>>
            /\ DOMAIN sandboxes' = DOMAIN sandboxes
            /\ \A id \in DOMAIN sandboxes :
                 sandboxes'[id] = IF id = lv[p].sb
                                  THEN Merge(sandboxes[id], [idle_expires_at |-> TRUE])
                                  ELSE sandboxes[id]

\* C16: a step of Keepalive(S) writes idle_expires_at of S's row and nothing
\* else: current_session_id, every session row, the containers, the count of
\* Driver.create calls and the workspaces stay as they were.
C16_KeepaliveOnlyExtends == [][KeepaliveWrites]_vars

C16_Witness ==
    \E p, q \in Procs :
        /\ lv[p].op = "keepalive" /\ pc[p] = "done" /\ result[p].kind = "ok"
        /\ sandboxes[lv[p].sb].current_session_id # Null
        /\ sandboxes[lv[p].sb].idle_expires_at
        /\ lv[q].op = "keepalive" /\ pc[q] = "done" /\ result[q].kind = "ok"
        /\ lv[q].sb = lv[p].sb /\ q # p

\* ----------------------------------------------------- delete properties
CascadeOnDelete ==
    \A p \in Procs :
        /\ StepOf(p, "delete") =>
             \A w \in DOMAIN workspaces :
                 ~workspaces[w].managed =>
                     /\ w \in DOMAIN workspaces' /\ workspaces'[w] = workspaces[w]
                     /\ (w \in volumes => w \in volumes')
        /\ (Completes(p, "delete") /\ lv[p].ws \in DOMAIN workspaces) =>
             IF workspaces[lv[p].ws].managed
             THEN lv[p].ws \notin DOMAIN workspaces' /\ lv[p].ws \notin volumes'
             ELSE lv[p].ws \in DOMAIN workspaces' /\ lv[p].ws \in volumes'

\* C17: when Delete(S) completes, a managed workspace of S is gone, row and
\* volume; an external workspace of S keeps its row and its volume, and no
\* step of a Delete removes an external workspace.
C17_ManagedCascade == [][CascadeOnDelete]_vars

C17_Witness ==
    \E p \in Procs :
        /\ lv[p].op = "delete" /\ pc[p] = "done" /\ result[p].kind = "ok"
        /\ lv[p].err = "managed"
        /\ lv[p].ws \notin DOMAIN workspaces /\ lv[p].ws \notin volumes
        /\ sandboxes[lv[p].sb].deleted

C17_WitnessExternal ==
    \E p \in Procs :
        /\ lv[p].op = "delete" /\ pc[p] = "done" /\ result[p].kind = "ok"
        /\ lv[p].err = "external"
        /\ lv[p].ws \in DOMAIN workspaces /\ lv[p].ws \in volumes
        /\ sandboxes[lv[p].sb].deleted

DeleteDestroys ==
    \A p \in Procs :
        /\ (StepOf(p, "delete") /\ pc[p] = "dl_row") =>
             /\ lv[p].sess \in DOMAIN sessions
             /\ sessions[lv[p].sess].container_id # Null
                => sessions[lv[p].sess].container_id \notin DOMAIN containers
             /\ lv[p].sess \notin DOMAIN sessions'
        /\ Completes(p, "delete") =>
             /\ RowsOf(lv[p].sb)' = {}
             /\ lv[p].sb \in DOMAIN sandboxes'
             /\ sandboxes'[lv[p].sb].deleted
             /\ sandboxes'[lv[p].sb].current_session_id = Null

\* C18: with requests served one at a time, Delete(S) removes a session row
\* only after Driver.destroy has removed the container the row names, and
\* when it completes no session row of S is left and the sandbox row is kept,
\* marked deleted, with no current session.
C18_DeleteDestroys == [][DeleteDestroys]_vars

C18_Witness ==
    \E p, q \in Procs :
        /\ lv[p].op = "delete" /\ pc[p] = "done" /\ result[p].kind = "ok"
        /\ lv[q].op = "stop" /\ pc[q] = "done" /\ result[q].kind = "ok"
        /\ lv[q].sb = lv[p].sb
        /\ \E s \in DOMAIN lv[p].snap : lv[p].snap[s] # Null
        /\ RowsOf(lv[p].sb) = {} /\ DOMAIN containers = {}
        /\ sandboxes[lv[p].sb].deleted

\* ------------------------------------------------------- CapabilityRouter
\* the operations of the router and the capability each one requires
Capabilities == {"python", "shell", "filesystem"}

RouterOps == {"exec_python", "exec_shell", "read_file", "write_file", "list_files",
              "delete_file", "upload_file", "download_file"}

CapabilityOf(operation) ==
    IF operation = "exec_python" THEN "python"
    ELSE IF operation = "exec_shell" THEN "shell"
    ELSE "filesystem"

\* what a runtime may answer on /meta: the keys of its capabilities
MetaChoices == {Capabilities, {"shell", "filesystem"}, {}}

\* the call: operation, capability, and the session ensure_session returned
RouterCall(p, operation) ==
    [operation |-> operation, capability |-> CapabilityOf(operation),
     endpoint |-> result[p].ep, runtime_type |-> "ship"]

Routed(p) == lv[p].body # <<>>

\* session = await self.ensure_session(sandbox) has returned;
\* adapter = self._get_adapter(session)
RtAdapter(p) ==
    /\ pc[p] = "done" /\ lv[p].op = "ensure_running"
    /\ result[p].kind = "ok" /\ ~Routed(p)
    /\ \E operation \in RouterOps :
         LET call == RouterCall(p, operation) IN
         /\ lv' = [lv EXCEPT ![p].body = call]
         /\ IF call.endpoint = Null
            THEN RaiseNotReady(p, SessionNotReadyError(SandboxId(lv[p].sb), Null))
            ELSE IF call.runtime_type # "ship"
            THEN Respond(p, "value_error", 500, "Unknown runtime type")
            ELSE Goto(p, "rt_meta") /\ UNCHANGED result
    /\ UNCHANGED <<sandboxes, sessions, workspaces, volumes, containers, lockMap,
                   lockHeld, fresh, createCalls, probed, idem, now>>

\* if capability not in meta.capabilities
Supports_Anything(meta, capability) == TRUE

Supports(meta, capability) == capability \in meta.capabilities

\* await self._require_capability(adapter, capability): the runtime's /meta, or
\* the request to the runtime fails
RtMeta(p) ==
    /\ pc[p] = "rt_meta"
    /\ \/ \E caps \in MetaChoices :
            LET meta == [capabilities |-> caps] IN
            /\ lv' = [lv EXCEPT ![p].resp = meta]
            /\ IF Supports(meta, lv[p].body.capability)
               THEN Goto(p, "rt_dispatch") /\ UNCHANGED result
               ELSE Respond(p, "capability_not_supported", 400,
                            [capability |-> lv[p].body.capability,
                             available |-> meta.capabilities])
       \/ Respond(p, "ship_error", 500, "Ship request failed") /\ UNCHANGED lv
    /\ UNCHANGED <<sandboxes, sessions, workspaces, volumes, containers, lockMap,
                   lockHeld, fresh, createCalls, probed, idem, now>>

\* return await adapter.<operation>(...)
RtDispatch(p) ==
    /\ pc[p] = "rt_dispatch"
    /\ \/ Respond(p, "dispatched", 200, lv[p].body.operation)
       \/ Respond(p, "ship_error", 500, "Ship request failed")
    /\ UNCHANGED <<sandboxes, sessions, workspaces, volumes, containers, lockMap,
                   lockHeld, fresh, lv, createCalls, probed, idem, now>>

Router(p) == RtAdapter(p) \/ RtMeta(p) \/ RtDispatch(p)

\* at most MaxRouted capability calls go past ensure_session
Admitted(p) == Routed(p) \/ Cardinality({q \in Procs : Routed(q)}) < MaxRouted

\* capability calls. The steps after ensure_session touch nothing but the
\* call's own locals, so they are taken one call at a time; so is the status
\* refresh that can leave a running session without an endpoint
NextRouter ==
    \/ CreateExternalWorkspace
    \/ PostPlain
    \/ \E p \in Procs : EnsureRunning(p)
    \/ \E p \in Procs : Alone(p) /\ RefreshStatus(p)
    \/ \E p \in Procs : Alone(p) /\ Admitted(p) /\ Router(p)

SpecRouter == Init /\ [][NextRouter]_vars

\* the router calls that have come to an end, and those that sent an adapter
\* operation
Ended(p) ==
    /\ pc[p] = "done" /\ lv[p].op = "ensure_running"
    /\ ~(result[p].kind = "ok" /\ ~Routed(p))

MetaRead(p) == Routed(p) /\ lv[p].resp # <<>>

Sending(p) == pc[p] = "rt_dispatch"

\* C19 as stated: a capability call that sends no adapter operation fails
\* with CapabilityNotSupported
C19_AsStated ==
    \A p \in Procs :
        Ended(p) /\ result[p].kind # "dispatched"
            => result[p].kind = "capability_not_supported"

\* an adapter operation is sent only for a session with an endpoint and a
\* capability the runtime's meta lists
HandshakeFirst ==
    \A p \in Procs :
        Sending(p) \/ (Ended(p) /\ result[p].kind = "dispatched")
            => /\ lv[p].body.endpoint # Null
               /\ MetaRead(p)
               /\ lv[p].body.capability \in lv[p].resp.capabilities

\* a capability missing from the meta is answered by CapabilityNotSupported
\* with the available list, a session without endpoint by SessionNotReady
Refusals ==
    \A p \in Procs :
        Ended(p) /\ Routed(p) =>
            /\ lv[p].body.endpoint = Null
                   => result[p].kind = "session_not_ready" /\ ~MetaRead(p)
            /\ MetaRead(p) /\ lv[p].body.capability \notin lv[p].resp.capabilities
                   => /\ result[p].kind = "capability_not_supported"
                      /\ result[p].content.available = lv[p].resp.capabilities
                      /\ result[p].content.capability = lv[p].body.capability
            /\ result[p].kind = "capability_not_supported"
                   => MetaRead(p) /\ lv[p].body.capability \notin lv[p].resp.capabilities

\* a call that was refused never sent an adapter operation, and a call that
\* fails inside ensure_running never reaches the adapter
NothingSentOnRefusal ==
    \A p \in Procs :
        /\ pc'[p] = "done" /\ pc[p] # "done" /\ lv[p].op = "ensure_running"
           /\ result'[p].kind \in {"capability_not_supported", "session_not_ready"}
               => ~Sending(p)
        /\ pc'[p] = "rt_meta" /\ pc[p] # "rt_meta"
               => pc[p] = "done" /\ result[p].kind = "ok"
        /\ Sending(p)' /\ ~Sending(p) => pc[p] = "rt_meta"

\* C19: an adapter operation is dispatched only after ensure_running returned
\* a session with an endpoint and the capability was found in the runtime's
\* meta; a missing capability fails with CapabilityNotSupported listing the
\* available ones, a missing endpoint or a failing ensure_running with the
\* error of that step, and in none of these cases is an operation sent
C19_Handshake == [](HandshakeFirst /\ Refusals) /\ [][NothingSentOnRefusal]_vars

C19_Witness ==
    \E p, q \in Procs :
        /\ Ended(p) /\ result[p].kind = "dispatched"
        /\ Ended(q) /\ result[q].kind = "capability_not_supported"
        /\ result[q].content.available # {}
        /\ lv[p].sb = lv[q].sb

\* ------------------------------------------------- SessionManager.create
\* the profiles of the settings, and one that names another runtime
ProfileConfigs ==
    {[id |-> "python-default", runtime_type |-> "ship"],
     [id |-> "python-data", runtime_type |-> "ship"],
     [id |-> "custom-runtime", runtime_type |-> "custom"]}

\* SessionManager.create(sandbox_id, workspace, profile), called on its own:
\* the row is added and committed, the driver is not involved
SessionCreate(p) ==
    /\ pc[p] = "idle"
    /\ fresh.session <= MaxSessions
    /\ \E id \in DOMAIN sandboxes, profile \in ProfileConfigs :
         /\ sessions' = sessions @@ (fresh.session :> NewSession(id))
         /\ lv' = [lv EXCEPT ![p].op = "create", ![p].sb = id,
                             ![p].ws = sandboxes[id].workspace_id,
                             ![p].sess = fresh.session, ![p].body = profile]
    /\ fresh' = [fresh EXCEPT !.session = @ + 1]
    /\ Return(p, "ok", fresh.session, Null, Null)
    /\ UNCHANGED <<sandboxes, workspaces, volumes, containers, lockMap, lockHeld,
                   createCalls, probed, idem, now>>

\* sessions created directly, next to the calls that create them on demand
NextCreate ==
    \/ CreateExternalWorkspace
    \/ PostPlain
    \/ \E p \in Procs : SessionCreate(p)
    \/ \E p \in Procs : Alone(p) /\ EnsureRunning(p)

SpecCreate == Init /\ [][NextCreate]_vars

\* a step of SessionManager.create taken by p
Creates(p) == pc[p] = "idle" /\ pc'[p] = "done" /\ lv'[p].op = "create"

\* the row it commits, the runtime type aside, and the driver left alone
CreatesPending ==
    \A p \in Procs :
        Creates(p) =>
            /\ result'[p].sess \notin DOMAIN sessions
            /\ result'[p].sess \in DOMAIN sessions'
            /\ LET row == sessions'[result'[p].sess] IN
               /\ row.desired_state = "pending" /\ row.observed_state = "pending"
               /\ row.container_id = Null /\ row.endpoint = Null
               /\ row.sandbox_id = lv'[p].sb
            /\ containers' = containers /\ createCalls' = createCalls
            /\ probed' = probed /\ volumes' = volumes

CreateInherits ==
    \A p \in Procs :
        Creates(p) =>
            sessions'[result'[p].sess].runtime_type = lv'[p].body.runtime_type

\* C20: SessionManager.create persists a row that is pending/pending, without
\* container and endpoint, whose runtime_type is that of the profile it was
\* given, and calls no driver operation
C20_CreateInheritsRuntime == [][CreatesPending /\ CreateInherits]_vars

\* the rest of the row is as stated
C20_RowIsPending == [][CreatesPending]_vars

\* the sandbox a step adds, if it adds one
Added == DOMAIN sandboxes' \ DOMAIN sandboxes

\* what SandboxManager.create(owner, workspace_id = w) leaves behind
LazyCreate(w) ==
    /\ Cardinality(Added) = 1
    /\ \A id \in Added :
         /\ sandboxes'[id].current_session_id = Null
         /\ ~sandboxes'[id].deleted
         /\ compute_status(sandboxes'[id], {}) = "idle"
         /\ IF w # Null
            THEN /\ sandboxes'[id].workspace_id = w
                 /\ workspaces' = workspaces /\ volumes' = volumes
            ELSE LET new == DOMAIN workspaces' \ DOMAIN workspaces IN
                 /\ new = {sandboxes'[id].workspace_id}
                 /\ \A x \in new :
                      /\ workspaces'[x].managed
                      /\ workspaces'[x].managed_by_sandbox_id = id
                      /\ workspaces'[x].owner = sandboxes'[id].owner
                 /\ volumes' \ volumes = new /\ volumes \subseteq volumes'
                 /\ \A x \in DOMAIN workspaces : workspaces'[x] = workspaces[x]
    /\ \A id \in DOMAIN sandboxes : sandboxes'[id] = sandboxes[id]
    /\ sessions' = sessions /\ containers' = containers
    /\ createCalls' = createCalls /\ probed' = probed

CreateIsLazy ==
    /\ \A o \in Owners, w \in {Null} \cup DOMAIN workspaces :
         SandboxCreate(o, "python-default", w, Null) => LazyCreate(w)
    /\ Added # {} =>
         \E o \in Owners, w \in {Null} \cup DOMAIN workspaces :
             SandboxCreate(o, "python-default", w, Null)

\* C21: SandboxManager.create leaves a sandbox without current session,
\* derived status idle, and adds no Session row and no container; without a
\* workspace_id it creates exactly one managed workspace (one volume) owned by
\* the new sandbox, with a workspace_id it attaches that one and creates none
C21_LazyCreate == [][CreateIsLazy]_vars

C21_Witness ==
    \E id \in DOMAIN sandboxes :
        LET w == sandboxes[id].workspace_id IN
        /\ sandboxes[id].current_session_id = Null /\ DerivedStatus(id) = "idle"
        /\ SessionsOf(id) = {} /\ DOMAIN containers = {}
        /\ w \in DOMAIN workspaces /\ w \in volumes
        /\ workspaces[w].managed /\ workspaces[w].managed_by_sandbox_id = id
        /\ Cardinality(DOMAIN workspaces) = 1

\* the same for a sandbox created on a given workspace
C21_WitnessAttached ==
    \E id \in DOMAIN sandboxes :
        LET w == sandboxes[id].workspace_id IN
        /\ sandboxes[id].current_session_id = Null /\ DerivedStatus(id) = "idle"
        /\ SessionsOf(id) = {} /\ DOMAIN containers = {}
        /\ w \in DOMAIN workspaces /\ ~workspaces[w].managed
        /\ Cardinality(DOMAIN workspaces) = 1

\* --------------------------------------------------- paging through a list
\* a table of Sandbox rows as earlier requests can have left it: each row of
\* either owner, soft-deleted or not, on its own managed workspace
SandboxRow(owner, deleted, ws) ==
    [owner |-> owner, profile_id |-> "python-default", workspace_id |-> ws,
     current_session_id |-> Null, deleted |-> deleted, idle_expires_at |-> FALSE,
     created_at |-> 0, expires_at |-> Null]

Tables ==
    UNION {[1..n -> [owner : Owners, deleted : BOOLEAN]] : n \in 0..MaxRows}

InitList ==
    /\ \E t \in Tables :
         /\ sandboxes = [id \in DOMAIN t |-> SandboxRow(t[id].owner, t[id].deleted, id)]
         /\ workspaces = [id \in {x \in DOMAIN t : ~t[x].deleted} |->
                             [owner |-> t[id].owner, managed |-> TRUE,
                              managed_by_sandbox_id |-> id]]
         /\ volumes = {x \in DOMAIN t : ~t[x].deleted}
         /\ fresh = [session |-> 1, container |-> 1, lock |-> 1,
                     workspace |-> Len(t) + 1]
    /\ sessions = <<>>
    /\ containers = <<>>
    /\ lockMap = <<>>
    /\ lockHeld = {}
    /\ pc = [p \in Procs |-> "idle"]
    /\ lv = [p \in Procs |-> NoLocals]
    /\ result = [p \in Procs |-> NoResult]
    /\ createCalls = [s \in SessionIds |-> 0]
    /\ probed = {}
    /\ idem = <<>>
    /\ now = 0

\* GET /v1/sandboxes by a client that follows next_cursor: the first request
\* with a cursor of its choice, each later one with the cursor it was handed.
\* lv.cur is the cursor sent, lv.resp the ids received so far
ListPage(p) ==
    /\ pc[p] \in {"idle", "ls_more"}
    /\ \E o \in Owners, n \in Limits, c \in {Null} \cup (1..MaxRows) :
         /\ pc[p] = "ls_more" =>
                o = lv[p].owner /\ n = lv[p].body.limit /\ c = result[p].content.next_cursor
         /\ LET page == list(o, Null, n, c)
                seen == IF pc[p] = "idle" THEN <<>> ELSE lv[p].resp
            IN  /\ lv' = [lv EXCEPT ![p] =
                             [NoLocals EXCEPT !.op = "list", !.owner = o, !.cur = c,
                                              !.body = [limit |-> n,
                                                        start |-> IF pc[p] = "idle" THEN c
                                                                  ELSE lv[p].body.start],
                                              !.resp = seen \o page.items]]
                /\ result' = [result EXCEPT ![p] =
                       [NoResult EXCEPT !.kind = "ok", !.status = 200,
                            !.content =
                                [items |-> [i \in 1..Len(page.items) |->
                                               Encode(sandbox_to_response(page.items[i],
                                                          sandboxes[page.items[i]]))],
                                 next_cursor |-> page.next_cursor]]]
                /\ Goto(p, IF page.next_cursor = Null THEN "done" ELSE "ls_more")
    /\ UNCHANGED <<sandboxes, sessions, workspaces, volumes, containers, lockMap,
                   lockHeld, fresh, createCalls, probed, idem, now>>

NextList == \E p \in Procs : ListPage(p)

SpecList == InitList /\ [][NextList]_vars

\* the non-deleted sandboxes of an owner, and the ids of the page a client holds
Mine(o) == {id \in DOMAIN sandboxes : sandboxes[id].owner = o /\ ~sandboxes[id].deleted}

After(c) == {id \in DOMAIN sandboxes : c = Null \/ id > c}

Listing(p) == lv[p].op = "list" /\ pc[p] \in {"ls_more", "done"}

PageIds(p) ==
    [i \in 1..Len(result[p].content.items) |-> result[p].content.items[i].id]

Ascending(ids) == \A i, j \in 1..Len(ids) : i < j => ids[i] < ids[j]

Elems(ids) == {ids[i] : i \in 1..Len(ids)}

\* one page: at most limit rows, the least matching ids above the cursor in
\* ascending order, and a next_cursor exactly when rows are left
PageIsRight ==
    \A p \in Procs :
        Listing(p) =>
            LET ids == PageIds(p)
                want == Mine(lv[p].owner) \cap After(lv[p].cur)
                left == want \ Elems(ids)
                nxt == result[p].content.next_cursor
            IN  /\ Len(ids) <= lv[p].body.limit
                /\ Ascending(ids)
                /\ Elems(ids) \subseteq want
                /\ \A x \in left, y \in Elems(ids) : y < x
                /\ (nxt # Null) <=> (left # {})
                /\ nxt # Null => Len(ids) > 0 /\ nxt = ids[Len(ids)]

\* the walk: when next_cursor comes back null, every matching sandbox above
\* the first cursor has been received exactly once
WalkIsComplete ==
    \A p \in Procs :
        lv[p].op = "list" /\ pc[p] = "done" =>
            /\ Ascending(lv[p].resp)
            /\ Elems(lv[p].resp) = Mine(lv[p].owner) \cap After(lv[p].body.start)

\* C22: List returns at most limit non-deleted sandboxes of the owner with
\* id > cursor in ascending id order, next_cursor is the last returned id iff
\* more exist, and following next_cursor to null visits each exactly once
C22_Pagination == PageIsRight /\ WalkIsComplete

C22_Witness ==
    \E p \in Procs :
        /\ lv[p].op = "list" /\ pc[p] = "done"
        /\ lv[p].body.limit = 1 /\ lv[p].body.start = Null
        /\ Len(lv[p].resp) = 2
        /\ \E x \in DOMAIN sandboxes \ Mine(lv[p].owner) : x < lv[p].resp[2]

\* ------------------------------------------------ list with a status filter
\* the values of SandboxStatus, and what a client may send as ?status=
StatusValues == {"idle", "starting", "ready", "stopped", "deleted"}

\* no ?status= at all (None), which list_sandboxes treats like an empty one
NoStatus == ""

StatusParams == {NoStatus, "idle", "starting", "ready", "no-such-status"}

\* SandboxStatus(status) inside try/except ValueError
status_filter(status) ==
    IF status # NoStatus /\ status \in StatusValues THEN status ELSE NoStatus

\* list_sandboxes with ?status=: the filter is converted and handed to
\* SandboxManager.list, the items are rendered without a session
ListFiltered(p) ==
    /\ pc[p] = "idle"
    /\ \E o \in Owners, status \in StatusParams :
         LET page == list(o, status_filter(status), MaxSandboxes, Null)
         IN  /\ lv' = [lv EXCEPT ![p] =
                          [NoLocals EXCEPT !.op = "list", !.owner = o,
                                           !.body = [status |-> status,
                                                     filter |-> status_filter(status)]]]
             /\ Respond(p, "ok", 200,
                    [items |-> [i \in 1..Len(page.items) |->
                                   Encode(sandbox_to_response(page.items[i],
                                                              sandboxes[page.items[i]]))],
                     next_cursor |-> page.next_cursor])
    /\ UNCHANGED <<sandboxes, sessions, workspaces, volumes, containers, lockMap,
                   lockHeld, fresh, createCalls, probed, idem, now>>

\* sandboxes brought up and stopped one request at a time, and listed by status
NextFilter ==
    \/ CreateExternalWorkspace
    \/ PostPlain
    \/ \E p \in Procs : Alone(p) /\ EnsureRunning(p)
    \/ \E p \in Procs : Alone(p) /\ Stop(p)
    \/ \E p \in Procs : ListFiltered(p)

SpecFilter == Init /\ [][NextFilter]_vars

\* a list request with a valid status filter answers in this step
Filters(p) ==
    /\ pc[p] = "idle" /\ pc'[p] = "done" /\ lv'[p].op = "list"
    /\ lv'[p].body.filter # NoStatus

FilterIsApplied ==
    \A p \in Procs :
        Filters(p) =>
            LET ids == {result'[p].content.items[i].id :
                            i \in 1..Len(result'[p].content.items)}
            IN  /\ \A id \in ids : DerivedStatus(id) = lv'[p].body.filter
                /\ \A id \in Mine(lv'[p].owner) :
                       DerivedStatus(id) = lv'[p].body.filter => id \in ids

\* C23: a List with a valid status filter s returns only sandboxes whose
\* derived status is s, and every non-deleted sandbox of the owner with that
\* status is returned
C23_StatusFilter == [][FilterIsApplied]_vars

\* -------------------------------------------- Ship: filesystem endpoints
\* a path is absolute or not and a sequence of components; directories are
\* sequences of names from the root
WORKSPACE_ROOT == <<"workspace">>

PathParts == {"..", "a", "etc", "workspace"}

RECURSIVE SeqsUpTo(_, _)
SeqsUpTo(S, n) ==
    IF n = 0 THEN {<<>>}
    ELSE LET shorter == SeqsUpTo(S, n - 1)
         IN  shorter \cup {Append(q, x) : q \in shorter, x \in S}

Paths == [absolute : BOOLEAN, parts : SeqsUpTo(PathParts, MaxDepth)]

\* Path.resolve() without symbolic links: `..` steps up and stops at the root
RECURSIVE Normalise(_, _)
Normalise(parts, acc) ==
    IF parts = <<>> THEN acc
    ELSE IF Head(parts) = ".."
         THEN Normalise(Tail(parts), IF acc = <<>> THEN <<>> ELSE SubSeq(acc, 1, Len(acc) - 1))
         ELSE Normalise(Tail(parts), Append(acc, Head(parts)))

\* candidate.relative_to(workspace_dir) does not raise
relative_to(candidate, dir) ==
    Len(candidate) >= Len(dir) /\ SubSeq(candidate, 1, Len(dir)) = dir

\* resolve_path: the resolved candidate, and whether it raises the 403
Resolved(path) ==
    Normalise(IF path.absolute THEN path.parts ELSE WORKSPACE_ROOT \o path.parts, <<>>)

resolve_path(path) ==
    IF relative_to(Resolved(path), WORKSPACE_ROOT)
    THEN [raised |-> FALSE, path |-> Resolved(path)]
    ELSE [raised |-> TRUE, path |-> <<>>]

\* the endpoints; those whose handler has `except HTTPException: raise`
ShipEndpoints == {"create_file", "read_file", "write_file", "edit_file",
                  "delete_file", "list_dir", "upload", "download"}

Reraises == {"read_file", "edit_file", "delete_file", "list_dir", "upload", "download"}

\* the statuses an endpoint ends with once the path is accepted: done, path
\* missing, wrong kind of path, or an error of the file system
Outcomes(endpoint) ==
    IF endpoint \in {"create_file", "write_file"} THEN {200, 500}
    ELSE IF endpoint = "upload" THEN {200}
    ELSE {200, 404, 400, 500}

\* a single request to the runtime
Only(p) == \A q \in Procs \ {p} : pc[q] = "idle"

ShReceive(p) ==
    /\ pc[p] = "idle" /\ Only(p)
    /\ \E endpoint \in ShipEndpoints, path \in Paths :
         lv' = [lv EXCEPT ![p] = [NoLocals EXCEPT !.op = endpoint, !.body = path]]
    /\ Goto(p, "sh_resolve")
    /\ UNCHANGED <<sandboxes, sessions, workspaces, volumes, containers, lockMap,
                   lockHeld, fresh, result, createCalls, probed, idem, now>>

\* the handler body: resolve_path first; an HTTPException is re-raised where
\* the handler says so and is otherwise caught by `except Exception`. The
\* content names the paths the handler went on to read or change
ShHandle(p) ==
    /\ pc[p] = "sh_resolve"
    /\ LET r == resolve_path(lv[p].body) IN
       IF r.raised
       THEN IF lv[p].op \in Reraises
            THEN Respond(p, "http_error", 403, [touched |-> {}])
            ELSE Respond(p, "http_error", 500, [touched |-> {}])
       ELSE \E status \in Outcomes(lv[p].op) :
              Respond(p, IF status = 200 THEN "ok" ELSE "http_error", status,
                      [touched |-> {r.path}])
    /\ UNCHANGED <<sandboxes, sessions, workspaces, volumes, containers, lockMap,
                   lockHeld, fresh, lv, createCalls, probed, idem, now>>

NextShip == \E p \in Procs : ShReceive(p) \/ ShHandle(p)

SpecShip == Init /\ [][NextShip]_vars

\* a request whose path lies outside the workspace root once resolved
Escapes(p) ==
    /\ lv[p].op \in ShipEndpoints /\ pc[p] = "done"
    /\ ~relative_to(Resolved(lv[p].body), WORKSPACE_ROOT)

\* C24: every filesystem endpoint answers a path that resolves outside the
\* workspace root with 403 and touches no file outside the root
C24_PathContainment ==
    \A p \in Procs :
        /\ Escapes(p) => result[p].status = 403
        /\ lv[p].op \in ShipEndpoints /\ pc[p] = "done" =>
               \A f \in result[p].content.touched : relative_to(f, WORKSPACE_ROOT)

\* the part that holds: nothing outside the root is touched, and the
\* endpoints that re-raise answer 403
C24_NothingOutside ==
    \A p \in Procs :
        lv[p].op \in ShipEndpoints /\ pc[p] = "done" =>
            /\ \A f \in result[p].content.touched : relative_to(f, WORKSPACE_ROOT)
            /\ Escapes(p) => /\ result[p].content.touched = {}
                             /\ result[p].status = IF lv[p].op \in Reraises THEN 403 ELSE 500

\* the step in which ensure_running re-raises a failure of Driver.create,
\* Driver.start or the readiness probe
StartFails(p) ==
    /\ lv[p].op = "ensure_running"
    /\ pc[p] \in {"er_create", "er_start", "er_probe", "er_fail"}
    /\ pc'[p] = "done"
    /\ result'[p].kind \in {"driver_error", "session_not_ready"}

FailureIsCommitted ==
    \A p \in Procs :
        StartFails(p) =>
            /\ lv[p].sess \in DOMAIN sessions'
            /\ sessions'[lv[p].sess].observed_state = "failed"

\* C25: when Driver.create, Driver.start or the readiness probe fails inside
\* SessionManager.ensure_running, observed_state is committed as failed before
\* the error is re-raised; no such failure leaves the session in starting
C25_FailureCommitsFailed == [][FailureIsCommitted]_vars

\* the part that holds: failures of Driver.start and of the probe
C25_StartFailureCommitsFailed ==
    [][\A p \in Procs :
           StartFails(p) /\ pc[p] = "er_fail" =>
               sessions'[lv[p].sess].observed_state = "failed"]_vars

\* the step in which ensure_running calls Driver.create or Driver.start
DriverCall(p) ==
    /\ lv[p].op = "ensure_running"
    /\ pc[p] \in {"er_create", "er_start"} /\ pc'[p] # pc[p]

MarkedFirst ==
    \A p \in Procs :
        DriverCall(p) =>
            /\ lv[p].sess \in DOMAIN sessions
            /\ sessions[lv[p].sess].desired_state = "running"
            /\ sessions[lv[p].sess].observed_state = "starting"

\* C26: once past the ready and starting checks, with or without a
\* container_id, ensure_running has committed desired_state = running and
\* observed_state = starting before it makes a driver call
C26_StartingBeforeDriver == [][MarkedFirst]_vars

\* the part that holds: a session without container is marked before
\* Driver.create
C26_StartingBeforeCreate ==
    [][\A p \in Procs :
           DriverCall(p) /\ pc[p] = "er_create" =>
               /\ sessions[lv[p].sess].desired_state = "running"
               /\ sessions[lv[p].sess].observed_state = "starting"]_vars

\* SessionManager.ensure_running is entered for a session found in this state
Entered(p) ==
    /\ lv[p].op = "ensure_running" /\ pc[p] = "er_sess" /\ pc'[p] # "er_sess"
    /\ lv[p].cur \in DOMAIN sessions

SessionFrame ==
    /\ sessions' = sessions /\ containers' = containers
    /\ createCalls' = createCalls /\ probed' = probed

\* a starting session is refused with the retry hint, a ready one is handed
\* back; neither reaches a driver call or writes a session field
StartingAndReady ==
    \A p \in Procs :
        /\ Entered(p) /\ sessions[lv[p].cur].observed_state = "starting" =>
               /\ pc'[p] = "done" /\ result'[p].kind = "session_not_ready"
               /\ "retry_after_ms" \in DOMAIN result'[p].content
               /\ result'[p].content.retry_after_ms = 1000
               /\ SessionFrame
        /\ Entered(p) /\ is_ready(sessions[lv[p].cur]) =>
               /\ pc'[p] = "er_touch" /\ lv'[p].sess = lv[p].cur
               /\ lv'[p].ep = sessions[lv[p].cur].endpoint
               /\ SessionFrame
        /\ (lv[p].op = "ensure_running" /\ pc[p] = "er_touch" /\ pc'[p] = "done") =>
               /\ result'[p].kind = "ok" /\ result'[p].sess = lv[p].sess
               /\ result'[p].ep = lv[p].ep
               /\ SessionFrame

\* C27: ensure_running on a starting session fails with SessionNotReady and
\* retry_after_ms = 1000, on a ready session returns it; in both cases without
\* a driver call and without a change to any session field
C27_StartingAndReady == [][StartingAndReady]_vars

C27_Witness ==
    \E p \in Procs :
        /\ lv[p].op = "ensure_running" /\ pc[p] = "done"
        /\ result[p].kind = "session_not_ready"
        /\ DOMAIN result[p].content = {"sandbox_id", "retry_after_ms"}
        /\ result[p].content.sandbox_id = SandboxId(lv[p].sb)
        /\ sessions[lv[p].sess].observed_state = "starting"

\* the ready case: two calls returned the same session after one Driver.create
C27_WitnessReady ==
    \E q, r \in Procs :
        /\ q # r
        /\ lv[q].op = "ensure_running" /\ pc[q] = "done" /\ result[q].kind = "ok"
        /\ lv[r].op = "ensure_running" /\ pc[r] = "done" /\ result[r].kind = "ok"
        /\ result[q].sess = result[r].sess /\ createCalls[result[q].sess] = 1
        /\ is_ready(sessions[result[q].sess])

\* a call that ended in SessionNotReady
NotReady(p) == pc[p] = "done" /\ result[p].kind = "session_not_ready"

\* C28: every SessionNotReady error carries details.sandbox_id, the id of the
\* sandbox the call was made on, and a details.retry_after_ms value
C28_NotReadyDetails ==
    \A p \in Procs :
        NotReady(p) =>
            /\ {"sandbox_id", "retry_after_ms"} \subseteq DOMAIN result[p].content
            /\ result[p].content.sandbox_id = SandboxId(lv[p].sb)

\* the part that holds: the error for a session found starting
C28_StartingDetails ==
    \A p \in Procs :
        NotReady(p) /\ ~Routed(p) /\ sessions[lv[p].sess].observed_state = "starting" =>
            /\ DOMAIN result[p].content = {"sandbox_id", "retry_after_ms"}
            /\ result[p].content.sandbox_id = SandboxId(lv[p].sb)

\* the place of a state in pending -> starting -> running -> stopping -> stopped
Rank(state) ==
    IF state = "pending" THEN 1
    ELSE IF state = "starting" THEN 2
    ELSE IF state = "running" THEN 3
    ELSE IF state = "stopping" THEN 4
    ELSE 5

\* a change of observed_state moves forward in that order or into failed,
\* and never out of failed
MovesForward ==
    \A s \in DOMAIN sessions \cap DOMAIN sessions' :
        LET was == sessions[s].observed_state
            is == sessions'[s].observed_state
        IN  was # is =>
                /\ was # "failed"
                /\ is = "failed" \/ Rank(was) < Rank(is)

\* C29: a session's observed_state changes only along pending -> starting ->
\* running -> stopping -> stopped or into failed, and failed is terminal
C29_StateOrder == [][MovesForward]_vars

\* ------------------------------------------------ refresh_status by table
\* the values of ContainerStatus, and the states of a Session row
ContainerStatuses == {"running", "created", "exited", "removing", "not_found"}

SessionStates == {"pending", "starting", "running", "stopping", "stopped", "failed"}

\* one sandbox with one session in any state, with or without container and
\* endpoint
InitRefresh ==
    /\ sandboxes = (1 :> SandboxRow("alice", FALSE, 1))
    /\ workspaces = (1 :> [owner |-> "alice", managed |-> TRUE, managed_by_sandbox_id |-> 1])
    /\ volumes = {1}
    /\ \E state \in SessionStates, cid \in {Null, 1}, ep \in {Null, 1} :
         sessions = (1 :> [NewSession(1) EXCEPT !.observed_state = state,
                                                 !.container_id = cid, !.endpoint = ep])
    /\ containers = <<>>
    /\ fresh = [session |-> 2, container |-> 2, lock |-> 1, workspace |-> 2]
    /\ lockMap = <<>>
    /\ lockHeld = {}
    /\ pc = [p \in Procs |-> "idle"]
    /\ lv = [p \in Procs |-> NoLocals]
    /\ result = [p \in Procs |-> NoResult]
    /\ createCalls = [s \in SessionIds |-> 0]
    /\ probed = {}
    /\ idem = <<>>
    /\ now = 0

\* Driver.status as any driver may answer it: one of the five statuses, and
\* an endpoint, resolved or not, only with running
RfReport(p) ==
    /\ pc[p] = "rf_status"
    /\ \E status \in ContainerStatuses, e \in {lv[p].cid, Null} :
         /\ e # Null => status = "running"
         /\ lv' = [lv EXCEPT ![p].err = status, ![p].ep = e]
    /\ Goto(p, "rf_write")
    /\ UNCHANGED <<sandboxes, sessions, workspaces, volumes, containers, lockMap,
                   lockHeld, fresh, result, createCalls, probed, idem, now>>

NextRefresh == \E p \in Procs : RfLoad(p) \/ RfReport(p) \/ RfWrite(p)

SpecRefresh == InitRefresh /\ [][NextRefresh]_vars

\* the row the table asks for, from the row before the commit
Reconciled(row, status, endpoint) ==
    IF status = "running"
    THEN [row EXCEPT !.observed_state = "running", !.endpoint = endpoint]
    ELSE IF status = "created" THEN [row EXCEPT !.observed_state = "pending"]
    ELSE IF status = "exited" THEN [row EXCEPT !.observed_state = "stopped"]
    ELSE IF status = "not_found"
    THEN [row EXCEPT !.observed_state = "stopped", !.container_id = Null]
    ELSE row

FollowsTable ==
    \A p \in Procs :
        /\ (pc[p] = "rf_write" /\ pc'[p] = "done") =>
               /\ lv[p].err \in ContainerStatuses
               /\ sessions'[lv[p].sess] = Reconciled(sessions[lv[p].sess], lv[p].err, lv[p].ep)
               /\ result'[p].kind = "ok" /\ result'[p].sess = lv[p].sess
        /\ (pc[p] = "idle" /\ lv'[p].op = "refresh_status") =>
               /\ sessions' = sessions
               /\ IF sessions[lv'[p].sess].container_id = Null
                  THEN pc'[p] = "done" /\ result'[p].kind = "ok"
                       /\ result'[p].sess = lv'[p].sess
                  ELSE pc'[p] = "rf_status"
        /\ (pc[p] = "rf_status" /\ pc'[p] # "rf_status") => sessions' = sessions

\* C30: refresh_status writes what the table says for each driver status:
\* running -> running with the endpoint reported, created -> pending, exited ->
\* stopped, not_found -> stopped without container_id, removing -> nothing; a
\* session without container_id is returned as it is, the driver not asked
C30_RefreshTable == [][FollowsTable]_vars

C30_Witness ==
    \E p, q \in Procs :
        /\ lv[p].op = "refresh_status" /\ pc[p] = "done" /\ lv[p].err = "not_found"
        /\ sessions[lv[p].sess].container_id = Null
        /\ sessions[lv[p].sess].observed_state = "stopped"
        /\ lv[q].op = "refresh_status" /\ pc[q] = "done" /\ lv[q].err = "removing"

\* ------------------------------------------ SessionManager._wait_for_ready
\* time in half seconds: the first interval, its cap, the backoff factor and
\* the timeout of one GET /health
InitialInterval == 1
MaxInterval == 2
BackoffFactor == 2
AttemptTimeout == 4

Min(a, b) == IF a <= b THEN a ELSE b

\* what one GET /health comes to: a status code, or an httpx.RequestError
\* (connection error) or httpx.TimeoutException
ProbeOutcomes == {"200", "204", "503", "error", "timeout"}

\* an attempt that is taken for ready whatever the runtime answered
Ready_AnyResponse(outcome) == outcome \notin {"error", "timeout"}

\* response.status_code == 200
Ready(outcome) == outcome = "200"

\* the call: start_time is taken, interval = initial_interval, attempt = 0
WfrStart(p) ==
    /\ pc[p] = "idle" /\ Only(p)
    /\ lv' = [lv EXCEPT ![p] =
                 [NoLocals EXCEPT !.op = "wait_for_ready", !.sess = 1, !.ep = 1,
                                  !.body = [attempt |-> 0, elapsed |-> 0,
                                            interval |-> InitialInterval,
                                            sleep |-> 0, last |-> "none"]]]
    /\ Goto(p, "wf_attempt")
    /\ UNCHANGED <<sandboxes, sessions, workspaces, volumes, containers, lockMap,
                   lockHeld, fresh, result, createCalls, probed, idem, now>>

\* one turn of the loop up to its sleep: the request takes up to its timeout;
\* on 200 return, otherwise read the clock, break when the budget is used up,
\* else sleep for min(interval, max_wait_seconds - elapsed)
WfrAttempt(p) ==
    /\ pc[p] = "wf_attempt"
    /\ \E outcome \in ProbeOutcomes, took \in 0..AttemptTimeout :
         LET b == lv[p].body
             elapsed == b.elapsed + took
         IN  IF Ready(outcome)
             THEN /\ lv' = [lv EXCEPT ![p].body =
                               [b EXCEPT !.attempt = @ + 1, !.elapsed = elapsed,
                                         !.last = outcome]]
                  /\ Return(p, "ok", Null, Null, Null)
             ELSE IF elapsed >= MaxWait
             THEN /\ lv' = [lv EXCEPT ![p].body =
                               [b EXCEPT !.attempt = @ + 1, !.elapsed = elapsed,
                                         !.last = outcome]]
                  /\ RaiseNotReady(p, SessionNotReadyError(SessionId(lv[p].sess),
                                                           RetryAfterMs))
             ELSE /\ lv' = [lv EXCEPT ![p].body =
                               [b EXCEPT !.attempt = @ + 1, !.elapsed = elapsed,
                                         !.last = outcome,
                                         !.sleep = Min(b.interval, MaxWait - elapsed)]]
                  /\ Goto(p, "wf_sleep") /\ UNCHANGED result
    /\ UNCHANGED <<sandboxes, sessions, workspaces, volumes, containers, lockMap,
                   lockHeld, fresh, createCalls, probed, idem, now>>

\* asyncio.sleep returns; interval = min(interval * backoff_factor, max_interval)
WfrSleep(p) ==
    /\ pc[p] = "wf_sleep"
    /\ lv' = [lv EXCEPT ![p].body =
                 [@ EXCEPT !.elapsed = @ + lv[p].body.sleep,
                           !.interval = Min(@ * BackoffFactor, MaxInterval)]]
    /\ Goto(p, "wf_attempt")
    /\ UNCHANGED <<sandboxes, sessions, workspaces, volumes, containers, lockMap,
                   lockHeld, fresh, result, createCalls, probed, idem, now>>

WaitForReady(p) == WfrStart(p) \/ WfrAttempt(p) \/ WfrSleep(p)

NextProbe == \E p \in Procs : WaitForReady(p)

\* the event loop runs every task that can run
SpecProbe ==
    /\ Init /\ [][NextProbe]_vars
    /\ \A p \in Procs : WF_vars(WfrAttempt(p) \/ WfrSleep(p))

Probing(p) == lv[p].op = "wait_for_ready"

\* what holds at every point of a probe
ProbeIsBounded ==
    \A p \in Procs :
        Probing(p) =>
            LET b == lv[p].body IN
            /\ pc[p] = "done" => b.attempt >= 1
            /\ pc[p] = "done" /\ result[p].kind = "ok" => b.last = "200"
            /\ pc[p] = "done" /\ result[p].kind # "ok" =>
                   /\ result[p].kind = "session_not_ready" /\ result[p].status = 503
                   /\ b.elapsed >= MaxWait /\ b.last # "200"
            /\ pc[p] = "wf_sleep" =>
                   /\ b.last # "200" /\ b.elapsed < MaxWait
                   /\ b.sleep > 0 /\ b.sleep <= Min(MaxInterval, MaxWait - b.elapsed)

\* an attempt that did not yield 200 is followed by a sleep or by the failure,
\* one that did by the return
ProbeRetries ==
    \A p \in Procs :
        (pc[p] = "wf_attempt" /\ pc'[p] # "wf_attempt") =>
            IF lv'[p].body.last = "200" THEN pc'[p] = "done" /\ result'[p].kind = "ok"
            ELSE IF lv'[p].body.elapsed >= MaxWait
            THEN pc'[p] = "done" /\ result'[p].kind = "session_not_ready"
            ELSE pc'[p] = "wf_sleep"

\* C31: the readiness probe makes at least one attempt, returns at the first
\* 200, retries after any other answer or error, never sleeps longer than
\* min(max_interval, remaining budget), fails with session_not_ready once the
\* budget is used up, and always comes to an end
C31_ProbeTerminates ==
    /\ []ProbeIsBounded
    /\ [][ProbeRetries]_vars
    /\ \A p \in Procs : (pc[p] = "wf_attempt") ~> (pc[p] = "done")

C31_Witness ==
    \E p \in Procs :
        /\ Probing(p) /\ pc[p] = "done" /\ result[p].kind = "session_not_ready"
        /\ lv[p].body.attempt >= 3 /\ lv[p].body.interval = 2

\* a probe that succeeds after it was retried
C31_WitnessReady ==
    \E p \in Procs :
        /\ Probing(p) /\ pc[p] = "done" /\ result[p].kind = "ok"
        /\ lv[p].body.attempt >= 2

\* ------------------------------------------------------- DockerDriver.start
ConnectModes == {"container_network", "host_port", "auto"}

\* docker_cfg.network: a network name, or none
NetworkNames == {"bay-net", "bridge"}
ConfiguredNetworks == {"bay-net", ""}

\* docker_cfg.host_address and ProfileConfig.runtime_port
HostAddress == "127.0.0.1"
RuntimePort == 8123
ContainerName == "bay-sess-1"

\* the address a container has on a network, "" while it has none
AddressOn(name) == IF name = "bay-net" THEN {"", "172.18.0.2"} ELSE {"", "172.17.0.2"}

\* NetworkSettings.Networks, in the order the engine lists them
NetworkLists ==
    {<<>>}
    \cup { <<[name |-> n, IPAddress |-> a]>> : n \in NetworkNames, a \in {"", "172.18.0.2", "172.17.0.2"} }
    \cup { <<[name |-> n, IPAddress |-> a], [name |-> m, IPAddress |-> b]>> :
             n \in NetworkNames, m \in NetworkNames,
             a \in {"", "172.18.0.2", "172.17.0.2"}, b \in {"", "172.18.0.2", "172.17.0.2"} }

Attached ==
    { ns \in NetworkLists :
        /\ \A i \in DOMAIN ns : ns[i].IPAddress \in AddressOn(ns[i].name)
        /\ \A i, j \in DOMAIN ns : i # j => ns[i].name # ns[j].name }

\* NetworkSettings.Ports["<runtime_port>/tcp"]
HostIps == {"", "0.0.0.0", "::", "192.168.1.5"}
HostPorts == {"", "32768"}
Bindings == [HostIp : HostIps, HostPort : HostPorts]
BindingLists == UNION { [1..n -> Bindings] : n \in 0..MaxBindings }

\* int(host_port_str)
int(str) == IF str = "32768" THEN 32768 ELSE 0

NoAddress == <<>>

_resolve_container_ip(network, networks) ==
    IF networks = <<>> THEN ""
    ELSE IF network # "" /\ \E i \in DOMAIN networks : networks[i].name = network
    THEN LET i == CHOOSE j \in DOMAIN networks : networks[j].name = network
         IN  networks[i].IPAddress
    ELSE networks[1].IPAddress

_resolve_host_port(bindings) ==
    IF bindings = <<>> THEN NoAddress
    ELSE LET b0 == bindings[1] IN
         IF b0.HostPort = "" THEN NoAddress
         ELSE IF b0.HostIp \in {"", "0.0.0.0", "::"}
         THEN <<HostAddress, int(b0.HostPort)>>
         ELSE <<b0.HostIp, int(b0.HostPort)>>

_endpoint_from_hostport(host, port) == <<"http://", host, ":", port>>

_endpoint_from_container_ip(ip, runtime_port) == <<"http://", ip, ":", runtime_port>>

\* a resolver that tries both candidates whatever the mode
start_AnyMode(connect_mode, network, networks, bindings) ==
    LET ip == _resolve_container_ip(network, networks)
        hp == _resolve_host_port(bindings)
    IN  IF ip # "" THEN _endpoint_from_container_ip(ip, RuntimePort)
        ELSE IF hp # NoAddress THEN _endpoint_from_hostport(hp[1], hp[2])
        ELSE <<"http://", ContainerName, ":", RuntimePort>>

\* the endpoint start returns for what container.show() reported
start(connect_mode, network, networks, bindings) ==
    LET ip == _resolve_container_ip(network, networks)
        hp == _resolve_host_port(bindings)
    IN  IF connect_mode \in {"container_network", "auto"} /\ ip # ""
        THEN _endpoint_from_container_ip(ip, RuntimePort)
        ELSE IF connect_mode \in {"host_port", "auto"} /\ hp # NoAddress
        THEN _endpoint_from_hostport(hp[1], hp[2])
        ELSE <<"http://", ContainerName, ":", RuntimePort>>

\* Driver.start is called on a driver of some configuration; the engine
\* starts the container and reports its networks and port bindings
DsStart(p) ==
    /\ pc[p] = "idle" /\ Only(p)
    /\ \E mode \in ConnectModes, network \in ConfiguredNetworks,
          networks \in Attached, bindings \in BindingLists :
         lv' = [lv EXCEPT ![p] =
                   [NoLocals EXCEPT !.op = "driver_start",
                                    !.body = [connect_mode |-> mode, network |-> network,
                                              networks |-> networks,
                                              bindings |-> bindings]]]
    /\ Goto(p, "ds_resolve")
    /\ UNCHANGED <<sandboxes, sessions, workspaces, volumes, containers, lockMap,
                   lockHeld, fresh, result, createCalls, probed, idem, now>>

DsResolve(p) ==
    /\ pc[p] = "ds_resolve"
    /\ LET b == lv[p].body IN
       Respond(p, "ok", Null, start(b.connect_mode, b.network, b.networks, b.bindings))
    /\ UNCHANGED <<sandboxes, sessions, workspaces, volumes, containers, lockMap,
                   lockHeld, fresh, lv, createCalls, probed, idem, now>>

NextDriver == \E p \in Procs : DsStart(p) \/ DsResolve(p)

SpecDriver == Init /\ [][NextDriver]_vars

Started(p) == lv[p].op = "driver_start" /\ pc[p] = "done"

ContainerAddresses == {"172.18.0.2", "172.17.0.2"}

IsContainerUrl(e) == e[2] \in ContainerAddresses /\ e[4] = RuntimePort
IsHostUrl(e) == e[2] \in {HostAddress, "192.168.1.5"} /\ e[4] = int("32768")
IsNameUrl(e) == e[2] = ContainerName /\ e[4] = RuntimePort

\* the addresses the container has on the configured network
OnConfigured(b) ==
    { b.networks[i].IPAddress : i \in { j \in DOMAIN b.networks :
          b.networks[j].name = b.network /\ b.networks[j].IPAddress # "" } }

IsAttached(b) == \E i \in DOMAIN b.networks : b.networks[i].name = b.network

\* the address the container-network candidate comes to: the one on the
\* configured network when the container is attached to it, else the one on
\* the first network listed; {} when there is none
Candidate(b) ==
    IF b.network # "" /\ IsAttached(b) THEN OnConfigured(b)
    ELSE IF b.networks = <<>> THEN {}
    ELSE {b.networks[1].IPAddress} \ {""}

\* the first binding is usable
Published(b) == b.bindings # <<>> /\ b.bindings[1].HostPort # ""

\* C32 as stated: in container_network mode with a network configured, the
\* endpoint is the container's address on that network, or else the name
C32_AsStated ==
    \A p \in Procs :
        Started(p) /\ lv[p].body.connect_mode = "container_network"
                   /\ lv[p].body.network # "" =>
            \/ IsNameUrl(result[p].content)
            \/ result[p].content[2] \in OnConfigured(lv[p].body)

\* C32: the endpoint by mode. container_network gives the container address
\* (on the configured network when the container is attached to it, else on
\* the first network listed) with the runtime port and never a host binding;
\* host_port gives the first published binding, a wildcard or empty host IP
\* replaced by the configured host address, and never a container address;
\* auto gives the container address when there is one and the binding
\* otherwise; the name is used only when every candidate of the mode fails
C32_EndpointByMode ==
    \A p \in Procs :
        Started(p) =>
            LET b == lv[p].body
                e == result[p].content
                byNetwork == b.connect_mode \in {"container_network", "auto"}
                byHost == b.connect_mode \in {"host_port", "auto"}
            IN  /\ IsContainerUrl(e) \/ IsHostUrl(e) \/ IsNameUrl(e)
                /\ b.connect_mode = "container_network" => ~IsHostUrl(e)
                /\ b.connect_mode = "host_port" => ~IsContainerUrl(e)
                /\ byNetwork /\ Candidate(b) # {} =>
                       IsContainerUrl(e) /\ e[2] \in Candidate(b)
                /\ byHost /\ Published(b) /\ ~(byNetwork /\ Candidate(b) # {}) =>
                       /\ IsHostUrl(e)
                       /\ e[2] = IF b.bindings[1].HostIp \in {"", "0.0.0.0", "::"}
                                 THEN HostAddress ELSE b.bindings[1].HostIp
                /\ IsNameUrl(e) <=> /\ byNetwork => Candidate(b) = {}
                                    /\ byHost => ~Published(b)

\* auto mode fell back to a binding on all interfaces
C32_Witness ==
    \E p \in Procs :
        /\ Started(p) /\ lv[p].body.connect_mode = "auto"
        /\ Candidate(lv[p].body) = {} /\ lv[p].body.bindings # <<>>
        /\ lv[p].body.bindings[1].HostIp = "0.0.0.0"
        /\ result[p].content = <<"http://", HostAddress, ":", 32768>>

\* container_network mode, the container not on the configured network
C32_WitnessFirstAttached ==
    \E p \in Procs :
        /\ Started(p) /\ lv[p].body.connect_mode = "container_network"
        /\ lv[p].body.network = "bay-net" /\ ~IsAttached(lv[p].body)
        /\ IsContainerUrl(result[p].content)

\* ------------------------------------------------- containers that are gone
\* a container is removed behind the service's back (docker rm, a host reboot)
ContainerVanishes ==
    /\ \A p \in Procs : pc[p] \in {"idle", "done"}
    /\ \E c \in DOMAIN containers :
         containers' = [d \in DOMAIN containers \ {c} |-> containers[d]]
    /\ UNCHANGED <<sandboxes, sessions, workspaces, volumes, lockMap, lockHeld, fresh,
                   pc, lv, result, createCalls, probed, idem, now>>

\* requests served one after the other, and containers that vanish in between
NextGone ==
    \/ PostPlain
    \/ ContainerVanishes
    \/ \E p \in Procs : Alone(p) /\ EnsureRunning(p)
    \/ \E p \in Procs : Alone(p) /\ Stop(p)
    \/ \E p \in Procs : Alone(p) /\ Delete(p)

SpecGone == Init /\ [][NextGone]_vars

DriverPcs == {"st_driver", "dl_driver"}

\* a driver call of Stop or Delete: 404 and success go on to the next step of
\* the operation, any other answer ends the call with the driver's error
DriverStep ==
    \A p \in Procs :
        pc[p] \in DriverPcs /\ pc'[p] # pc[p] =>
            /\ lv[p].cid \notin DOMAIN containers => lv'[p].resp \in {<<404>>, <<500>>}
            /\ IF lv'[p].resp = <<500>>
               THEN pc'[p] = "done" /\ result'[p].kind = "driver_error"
                    /\ UNCHANGED <<containers, sessions, sandboxes>>
               ELSE /\ pc'[p] = IF pc[p] = "st_driver" THEN "st_stopped" ELSE "dl_row"
                    /\ result'[p] = result[p]
                    /\ lv[p].cid \notin DOMAIN containers' \/ containers'[lv[p].cid] # "running"

\* a Stop or Delete of a found sandbox fails only on a driver error other
\* than 404
FailsOnlyOnError ==
    \A p \in Procs :
        pc[p] = "done" /\ lv[p].op \in {"stop", "delete"} =>
            /\ result[p].kind \in {"ok", "not_found", "driver_error"}
            /\ result[p].kind = "driver_error" => lv[p].resp = <<500>>
            /\ result[p].kind = "ok" /\ (\E s \in DOMAIN lv[p].snap : lv[p].snap[s] # Null) =>
                   lv[p].resp \in {<<204>>, <<404>>}

\* the state a call reaches when it returns
NormalEnd ==
    \A p \in Procs :
        /\ Completes(p, "stop") => StoppedForm(lv[p].sb)'
        /\ Completes(p, "delete") =>
               /\ RowsOf(lv[p].sb)' = {}
               /\ sandboxes'[lv[p].sb].deleted
               /\ sandboxes'[lv[p].sb].current_session_id = Null
               /\ \A s \in DOMAIN lv[p].snap : lv[p].snap[s] \notin DOMAIN containers'

\* C33: Driver.stop and Driver.destroy on a container that is gone do not
\* raise, so Stop and Delete return and leave their normal final state
\* whichever of the sandbox's containers were removed before; any other driver
\* error ends the call with that error
C33_NotFoundAbsorbed == []FailsOnlyOnError /\ [][DriverStep /\ NormalEnd]_vars

\* a Stop that returned after the engine answered 404
C33_Witness ==
    \E p \in Procs :
        /\ lv[p].op = "stop" /\ pc[p] = "done" /\ result[p].kind = "ok"
        /\ lv[p].resp = <<404>> /\ StoppedForm(lv[p].sb)
        /\ \E s \in RowsOf(lv[p].sb) : sessions[s].container_id \notin DOMAIN containers \cup {Null}

\* a Delete that returned after the engine answered 404
C33_WitnessDelete ==
    \E p \in Procs :
        /\ lv[p].op = "delete" /\ pc[p] = "done" /\ result[p].kind = "ok"
        /\ lv[p].resp = <<404>> /\ RowsOf(lv[p].sb) = {} /\ sandboxes[lv[p].sb].deleted

\* ------------------------------------------------------- invalid profiles
\* a POST /v1/sandboxes of p that names a profile that is not configured
BadProfile(p) == lv[p].op = "post" /\ lv[p].body.profile \notin Profiles

\* sandbox_mgr.create raises ValidationError and writes nothing
CreateRejects ==
    \A p \in Procs :
        pc[p] = "po_create" /\ BadProfile(p) /\ pc'[p] # pc[p] =>
            /\ pc'[p] = "done" /\ result'[p].kind = "validation_error"
            /\ result'[p].status = 400
            /\ UNCHANGED <<sandboxes, workspaces, volumes, sessions, containers, idem>>

\* no step of such a request adds or rewrites an idempotency record
SavesNothing ==
    \A p \in Procs :
        BadProfile(p) /\ pc'[p] # pc[p] =>
            /\ pc'[p] # "po_save"
            /\ DOMAIN idem' \subseteq DOMAIN idem
            /\ \A k \in DOMAIN idem' : idem'[k] = idem[k]

\* no row and no record names a profile that is not configured
OnlyConfiguredProfiles ==
    /\ \A id \in DOMAIN sandboxes : sandboxes[id].profile_id \in Profiles
    /\ \A k \in DOMAIN idem : json_loads(idem[k].response_snapshot).profile \in Profiles

\* C34: SandboxManager.create with a profile that is not configured raises
\* ValidationError and creates no sandbox row, no workspace row and no volume,
\* and the POST that carried it saves no idempotency record
C34_InvalidProfile == []OnlyConfiguredProfiles /\ [][CreateRejects /\ SavesNothing]_vars

\* a keyed request was refused while another sandbox existed
C34_Witness ==
    \E p \in Procs :
        /\ BadProfile(p) /\ pc[p] = "done" /\ result[p].kind = "validation_error"
        /\ Truthy(lv[p].hdr) /\ KeyOf(p) \notin DOMAIN idem
        /\ DOMAIN sandboxes # {} /\ DOMAIN workspaces = DOMAIN sandboxes

\* ------------------------------------------------- the current session
\* C35: in every committed state a non-null current_session_id of a sandbox
\* names an existing session row of that sandbox
C35_CurrentSessionExists ==
    \A id \in DOMAIN sandboxes :
        sandboxes[id].current_session_id # Null =>
            /\ sandboxes[id].current_session_id \in DOMAIN sessions
            /\ sessions[sandboxes[id].current_session_id].sandbox_id = id

\* ------------------------------------------------- ensure_running and delete
\* p holds a handle of a sandbox whose soft delete is committed, and has not
\* entered the critical section yet
EntersAfterDelete(p) ==
    /\ lv[p].op = "ensure_running" /\ pc[p] \in {"er_lock", "er_wait"}
    /\ sandboxes[lv[p].sb].deleted

\* where an ensure_running creates a session row or asks the driver
CreatingPcs == {"er_new", "er_setcur", "er_mark", "er_create", "er_savecid", "er_start"}

\* C36: an ensure_running whose critical section begins after the soft delete
\* of its sandbox was committed creates no session and no container: it
\* fails on what it reads
C36_DeleteIsTerminal ==
    \A p \in Procs : [](EntersAfterDelete(p) => [](pc[p] \notin CreatingPcs))

\* every request that can take a step takes one in the end
SpecFair == Spec /\ WF_vars(Next)

\* ------------------------------------------------------- container adoption
\* C37: without a refresh that clears container_id, Driver.create is called
\* at most once for a session row
C37_CreateOnce == \A s \in SessionIds : createCalls[s] <= 1

\* no container id is stored over one that is stored already: violated with
\* Delete among the requests, where two calls create for one row
C37_StoredIdKept ==
    \A p \in Procs :
        pc[p] = "er_savecid" /\ lv[p].sess \in DOMAIN sessions =>
            sessions[lv[p].sess].container_id = Null

\* ------------------------------------------------------------ repeated stop
\* a Stop of p has selected the sessions of its sandbox and stopped none of
\* them yet, and every one of them is stopped
NothingToStop(p) ==
    /\ lv[p].op = "stop" /\ pc[p] = "st_stopping"
    /\ lv[p].todo = RowsOf(lv[p].sb)
    /\ \A s \in RowsOf(lv[p].sb) :
         sessions[s].observed_state = "stopped" /\ sessions[s].desired_state = "stopped"

StopLeavesStopped ==
    \A p \in Procs :
        NothingToStop(p) /\ pc'[p] # pc[p] =>
            sessions' = sessions /\ pc'[p] # "st_driver"

\* C38: a Stop called when its sandbox has no session that is not stopped
\* commits no session state and makes no Driver.stop call
C38_RepeatedStopNoOp == [][StopLeavesStopped]_vars

\* ---------------------------------------------------------- first save wins
\* a save of p for a key that has a record: nothing is raised, the request
\* is answered as created, and no record changes
SaveKeepsFirst ==
    \A p \in Procs :
        pc[p] = "po_save" /\ pc'[p] # pc[p] =>
            /\ pc'[p] = "done" /\ result'[p].kind = "created" /\ result'[p].status = 201
            /\ KeyOf(p) \in DOMAIN idem => idem' = idem
            /\ KeyOf(p) \notin DOMAIN idem =>
                   /\ DOMAIN idem' = DOMAIN idem \cup {KeyOf(p)}
                   /\ \A k \in DOMAIN idem : idem'[k] = idem[k]
                   /\ idem'[KeyOf(p)].request_fingerprint = FingerprintOf(p)

\* C39: a save for an (owner, key) that has a record raises nothing to its
\* caller and leaves the fingerprint, the response snapshot, the status code
\* and expires_at of that record as the first save wrote them
C39_FirstSaveWins == [][SaveKeepsFirst]_vars

\* two requests with one key both created a sandbox and saved; the record
\* is the one of the first
C39_Witness ==
    \E p, q \in Procs :
        /\ p # q /\ lv[p].op = "post" /\ lv[q].op = "post"
        /\ pc[p] = "done" /\ pc[q] = "done"
        /\ result[p].kind = "created" /\ result[q].kind = "created"
        /\ Truthy(lv[p].hdr) /\ Truthy(lv[q].hdr) /\ KeyOf(p) = KeyOf(q)
        /\ KeyOf(p) \in DOMAIN idem
        /\ json_loads(idem[KeyOf(p)].response_snapshot).id = result[p].content.id
        /\ result[q].content.id # result[p].content.id
        /\ idem[KeyOf(p)].created_at < now

\* ------------------------------------------------------------ retry liveness
\* the client of a call that did not return a session calls again
Retry(p) ==
    /\ pc[p] = "done" /\ lv[p].op = "ensure_running" /\ result[p].kind # "ok"
    /\ pc' = [pc EXCEPT ![p] = "idle"]
    /\ lv' = [lv EXCEPT ![p] = NoLocals]
    /\ result' = [result EXCEPT ![p] = NoResult]
    /\ UNCHANGED <<sandboxes, sessions, workspaces, volumes, containers, lockMap,
                   lockHeld, fresh, createCalls, probed, idem, now>>

NextRetry ==
    \/ PostPlain
    \/ \E p \in Procs : Alone(p) /\ EnsureRunning(p)
    \/ \E p \in Procs : Retry(p)

\* a call of the sandbox's owner gets past the lookup
OwnerCalls == \E p \in Procs : Alone(p) /\ ErGet(p) /\ pc'[p] = "er_lock"

\* the sandbox gets created, every request that can take a step takes one,
\* and the owner keeps calling
SpecRetry ==
    /\ Init /\ [][NextRetry]_vars
    /\ WF_vars(PostPlain) /\ WF_vars(NextRetry) /\ SF_vars(OwnerCalls)

\* a step in which Driver.create, Driver.start or the readiness probe fails
DriverFails ==
    \E p \in Procs :
        \/ pc[p] = "er_create" /\ pc'[p] = "done"
        \/ pc[p] \in {"er_start", "er_probe"} /\ pc'[p] = "er_fail"

SomeoneIsServed ==
    \E p \in Procs : lv[p].op = "ensure_running" /\ pc[p] = "done" /\ result[p].kind = "ok"

\* C40: when from some point on no driver call and no probe fails, a client
\* that keeps calling ensure_running is given a ready session in the end
C40_RetryLiveness == <>[][~DriverFails]_vars => <>SomeoneIsServed
====
